---- MODULE Spec2Model ----
\* permit-backend: the task pipeline (usecase.TaskService), the order/payment
\* state machine (usecase.OrderService) and the download-token lifecycle
\* (usecase.DownloadService) over their repositories.
EXTENDS Integers, Sequences, FiniteSets, TLC

\* ---------------------------------------------------------------- bounds
MaxClock == 3      \* the clock runs over 1..MaxClock
MaxTasks == 1      \* tasks created by CreateTask
MaxTokens == 1     \* tokens issued by CreateToken
MaxOrders == 1     \* orders created by OrderService.Create
MaxProcs == 2      \* concurrent UseToken requests in SpecTokenConc
MaxListed == 3     \* orders in the store that List pages through

\* ------------------------------------------------------------- constants
ZeroTime == 0            \* the zero time.Time (DownloadToken.UsedAt not set)
DefaultTTL == 600        \* CreateToken: ttlSeconds <= 0 is replaced by 600
PrefixLen == 32          \* CreateTask: diagnostic prefix of a malformed payload

None == [none |-> TRUE]  \* nil / absent

\* ---------------------------------------------------------------- strings
\* A string that the code trims is a sequence of chunks; the chunk " " is
\* white space.
RECURSIVE TrimLeft(_)
TrimLeft(s) == IF s # <<>> /\ Head(s) = " " THEN TrimLeft(Tail(s)) ELSE s

RECURSIVE TrimRight(_)
TrimRight(s) ==
    IF s # <<>> /\ s[Len(s)] = " " THEN TrimRight(SubSeq(s, 1, Len(s) - 1)) ELSE s

TrimSpace(s) == TrimRight(TrimLeft(s))

\* randomID(): 16 random bytes, hex-encoded; the n-th id drawn is fresh.
randomID(n) == <<ToString(n)>>

Users == {<<>>, <<"u1">>, <<"u1", " ">>, <<"u2">>}

VARIABLES
    now,        \* time.Now().UTC(), in seconds
    nextId,     \* number of ids drawn from randomID() so far
    repoKind,   \* "memory" or "postgres": the repositories chosen in server.New
    taskRepo,   \* TaskRepo: task id -> stored Task
    orderRepo,  \* OrderRepo: order id -> stored Order
    tokenRepo,  \* DownloadTokenRepo: token -> stored DownloadToken
    ret,        \* the last completed call: its arguments, what it saw and returned
    okCount,    \* history: token -> number of UseToken calls that returned success
    payLog,     \* history: order id -> the first and the latest intent Pay returned
    procs,      \* the concurrent requests in flight (SpecTokenConc, SpecExtendConc)
    files,      \* the assets directory: the set of <<task id, file name>> written
    bgLog       \* history: <<task id, color>> -> reference GenerateBackground returned

vars == <<now, nextId, repoKind, taskRepo, orderRepo, tokenRepo, ret, okCount,
          payLog, procs, files, bgLog>>

\* ---------------------------------------------------------- task pipeline
StatusQueued == "queued"
StatusProcessing == "processing"
StatusDone == "done"
StatusFailed == "failed"

Colors == {"", "white", "blue"}

\* Payloads of the photo-processing service: sequences of characters.
B64Chars == {"A", "="}
Repeat(c, n) == [i \in 1..n |-> c]
GoodPayload == Repeat("A", 4)
BadPayload == <<"!">> \o Repeat("A", PrefixLen + 3)
Payloads == {<<>>, GoodPayload, BadPayload}

\* algo.DecodeBase64(s): trims, pads to a multiple of four and decodes.
DecodeBase64(s) ==
    LET t == TrimSpace(s)
        rem == Len(t) % 4
        padded == IF rem # 0 THEN t \o Repeat("=", 4 - rem) ELSE t
    IN  [err |-> (\E i \in 1..Len(padded) : padded[i] \notin B64Chars) \/ rem = 1,
         data |-> <<"bytes", padded>>]

\* The diagnostic carrying the whole payload.
Prefix_Whole(s) == s

\* prefix := payload; if len(prefix) > 32 { prefix = prefix[:32] }
Prefix(s) == IF Len(s) > PrefixLen THEN SubSeq(s, 1, PrefixLen) ELSE s

\* FSWriter.buildURL / Write / WriteFile: the reference returned for a file.
PublicBaseURL == <<>>
buildURL(path) == IF PublicBaseURL = <<>> THEN path ELSE PublicBaseURL \o path
WriteFileURL(taskID, filename) == buildURL(<<"/assets/">> \o taskID \o <<"/", filename>>)
WriteURL(taskID, color) == buildURL(<<"/assets/">> \o taskID \o <<"/", color, ".jpg">>)

\* What the collaborators answer during one CreateTask.
IDPhotoResults ==
    {[err |-> TRUE, ok |-> FALSE, std |-> <<>>, hd |-> <<>>],
     [err |-> FALSE, ok |-> FALSE, std |-> <<>>, hd |-> <<>>],
     [err |-> FALSE, ok |-> TRUE, std |-> GoodPayload, hd |-> <<>>],
     [err |-> FALSE, ok |-> TRUE, std |-> <<>>, hd |-> GoodPayload],
     [err |-> FALSE, ok |-> TRUE, std |-> <<>>, hd |-> <<>>],
     [err |-> FALSE, ok |-> TRUE, std |-> BadPayload, hd |-> GoodPayload]}

AddBackgroundResults ==
    {[err |-> TRUE, ok |-> FALSE, img |-> <<>>],
     [err |-> FALSE, ok |-> FALSE, img |-> <<>>],
     [err |-> FALSE, ok |-> TRUE, img |-> GoodPayload],
     [err |-> FALSE, ok |-> TRUE, img |-> BadPayload]}

CreateTaskWorlds ==
    [idp : IDPhotoResults, baselineWriteErr : BOOLEAN,
     bg : AddBackgroundResults, variantWriteErr : BOOLEAN]

\* Payloads that do not decode, shorter than the diagnostic prefix, as long
\* as it, and longer.
Undecodable == {<<"!">> \o Repeat("A", n - 1) : n \in {1, PrefixLen, PrefixLen + 1}}

\* The answers of the processing service in which one payload does not decode.
UndecodableWorlds ==
    {[idp |-> [err |-> FALSE, ok |-> TRUE, std |-> s, hd |-> GoodPayload],
      baselineWriteErr |-> FALSE,
      bg |-> [err |-> FALSE, ok |-> TRUE, img |-> GoodPayload],
      variantWriteErr |-> FALSE] : s \in Undecodable}
    \cup
    {[idp |-> [err |-> FALSE, ok |-> TRUE, std |-> <<>>, hd |-> GoodPayload],
      baselineWriteErr |-> FALSE,
      bg |-> [err |-> FALSE, ok |-> TRUE, img |-> s],
      variantWriteErr |-> FALSE] : s \in Undecodable}

\* The Task built at the top of CreateTask.
NewTask(taskID, userID, t) ==
    [id |-> taskID, userId |-> userID, status |-> StatusProcessing,
     baselineUrl |-> <<>>, processedUrls |-> <<>>, layoutUrls |-> <<>>,
     errorMsg |-> <<>>, createdAt |-> t, updatedAt |-> t]

\* A failure branch that records the message but leaves the status as it was.
Failed_KeepsProcessing(t, msg, at) ==
    [t EXCEPT !.errorMsg = msg, !.updatedAt = at]

Failed(t, msg, at) ==
    [t EXCEPT !.status = StatusFailed, !.errorMsg = msg, !.updatedAt = at]

\* The url map with one more entry: m[color] = url.
MapPut(m, k, v) == [x \in (DOMAIN m) \cup {k} |-> IF x = k THEN v ELSE m[x]]
MapGet(m, k) == IF k \in DOMAIN m THEN m[k] ELSE <<>>

\* CreateTask recording the variant under the requested name, also when that
\* name is empty and the file was written as white.
CreateTaskResult_KeyNotDefaulted(t0, defaultBackground, w, at) ==
    LET rgbaB64 == IF w.idp.std = <<>> THEN w.idp.hd ELSE w.idp.std
        bgColor == IF defaultBackground = "" THEN "white" ELSE defaultBackground
        t1 == [t0 EXCEPT !.baselineUrl = WriteFileURL(t0.id, "baseline.png")]
    IN  IF w.idp.err THEN Failed(t0, <<"algo idphoto error: ", "err">>, at)
        ELSE IF ~w.idp.ok THEN Failed(t0, <<"algo idphoto resp not ok">>, at)
        ELSE IF DecodeBase64(rgbaB64).err
            THEN Failed(t0, <<"decode baseline error: ">> \o Prefix(rgbaB64), at)
        ELSE IF w.baselineWriteErr THEN Failed(t0, <<"write baseline error">>, at)
        ELSE IF w.bg.err THEN Failed(t1, <<"algo add_background error: ", "err">>, at)
        ELSE IF ~w.bg.ok THEN Failed(t1, <<"algo add_background resp not ok">>, at)
        ELSE IF DecodeBase64(w.bg.img).err
            THEN Failed(t1, <<"decode image error: ">> \o Prefix(w.bg.img), at)
        ELSE IF w.variantWriteErr THEN Failed(t1, <<"write image error">>, at)
        ELSE [t1 EXCEPT
                !.processedUrls =
                    MapPut(@, defaultBackground, WriteURL(t0.id, bgColor)),
                !.status = StatusDone,
                !.updatedAt = at]

\* CreateTask storing one and the same message for a transport error and
\* for an answer that is not OK.
CreateTaskResult_SameMessage(t0, defaultBackground, w, at) ==
    LET rgbaB64 == IF w.idp.std = <<>> THEN w.idp.hd ELSE w.idp.std
        bgColor == IF defaultBackground = "" THEN "white" ELSE defaultBackground
        t1 == [t0 EXCEPT !.baselineUrl = WriteFileURL(t0.id, "baseline.png")]
    IN  IF w.idp.err \/ ~w.idp.ok THEN Failed(t0, <<"algo idphoto resp not ok">>, at)
        ELSE IF DecodeBase64(rgbaB64).err
            THEN Failed(t0, <<"decode baseline error: ">> \o Prefix(rgbaB64), at)
        ELSE IF w.baselineWriteErr THEN Failed(t0, <<"write baseline error">>, at)
        ELSE IF w.bg.err \/ ~w.bg.ok
            THEN Failed(t1, <<"algo add_background resp not ok">>, at)
        ELSE IF DecodeBase64(w.bg.img).err
            THEN Failed(t1, <<"decode image error: ">> \o Prefix(w.bg.img), at)
        ELSE IF w.variantWriteErr THEN Failed(t1, <<"write image error">>, at)
        ELSE [t1 EXCEPT
                !.processedUrls = MapPut(@, bgColor, WriteURL(t0.id, bgColor)),
                !.status = StatusDone,
                !.updatedAt = at]

\* CreateTask from the cutout call on: the Task it returns. t0 is the Task
\* first persisted, at the time the pipeline ends.
CreateTaskResult(t0, defaultBackground, w, at) ==
    LET rgbaB64 == IF w.idp.std = <<>> THEN w.idp.hd ELSE w.idp.std
        bgColor == IF defaultBackground = "" THEN "white" ELSE defaultBackground
        t1 == [t0 EXCEPT !.baselineUrl = WriteFileURL(t0.id, "baseline.png")]
    IN  IF w.idp.err THEN Failed(t0, <<"algo idphoto error: ", "err">>, at)
        ELSE IF ~w.idp.ok THEN Failed(t0, <<"algo idphoto resp not ok">>, at)
        ELSE IF DecodeBase64(rgbaB64).err
            THEN Failed(t0, <<"decode baseline error: ">> \o Prefix(rgbaB64), at)
        ELSE IF w.baselineWriteErr THEN Failed(t0, <<"write baseline error">>, at)
        ELSE IF w.bg.err THEN Failed(t1, <<"algo add_background error: ", "err">>, at)
        ELSE IF ~w.bg.ok THEN Failed(t1, <<"algo add_background resp not ok">>, at)
        ELSE IF DecodeBase64(w.bg.img).err
            THEN Failed(t1, <<"decode image error: ">> \o Prefix(w.bg.img), at)
        ELSE IF w.variantWriteErr THEN Failed(t1, <<"write image error">>, at)
        ELSE [t1 EXCEPT
                !.processedUrls = MapPut(@, bgColor, WriteURL(t0.id, bgColor)),
                !.status = StatusDone,
                !.updatedAt = at]

\* TaskRepo.Put: the in-memory repository keeps the Task; the Postgres one
\* keeps the columns of table tasks.
TaskPut(kind, repo, t) ==
    LET row == IF kind = "postgres"
               THEN [t EXCEPT !.baselineUrl = <<>>, !.layoutUrls = <<>>]
               ELSE t
    IN  [x \in (DOMAIN repo) \cup {t.id} |-> IF x = t.id THEN row ELSE repo[x]]

\* TaskRepo.Get
TaskGet(repo, id) == IF id \in DOMAIN repo THEN repo[id] ELSE None

\* The files Assets.WriteFile and Assets.Write left in the assets directory
\* during the CreateTask that returned t: one per reference recorded on t.
TaskFiles(t) ==
    (IF t.baselineUrl # <<>> THEN {<<t.id, <<"baseline.png">>>>} ELSE {})
        \cup {<<t.id, <<c, ".jpg">>>> : c \in DOMAIN t.processedUrls}

\* CreateTask: the Task is built at the clock value read first and its last
\* Put happens at the clock value at, read when the pipeline ends.
CreateTask(userID, defaultBackground, w, at) ==
    /\ Cardinality(DOMAIN taskRepo) < MaxTasks
    /\ at \in now..MaxClock
    /\ LET taskID == randomID(nextId + 1)
           t == CreateTaskResult(NewTask(taskID, userID, now), defaultBackground, w, at)
       IN  /\ taskRepo' = TaskPut(repoKind, taskRepo, t)
           /\ files' = files \cup TaskFiles(t)
           /\ ret' = [op |-> "CreateTask", color |-> defaultBackground,
                      kind |-> "ok", val |-> t, world |-> w]
    /\ now' = at
    /\ nextId' = nextId + 1
    /\ UNCHANGED <<repoKind, orderRepo, tokenRepo, okCount, payLog, procs, bgLog>>

Tick ==
    /\ now < MaxClock
    /\ now' = now + 1
    /\ UNCHANGED <<nextId, repoKind, taskRepo, orderRepo, tokenRepo, ret, okCount,
                   payLog, procs,
                   files, bgLog>>

\* CreateTask step by step. Each step is one call to a collaborator and what
\* the code does with its answer; next is the step that follows, or "return".
\* The cutout step going on to the baseline write when the service answered
\* not OK.
CreateTaskIDPhoto_NoShortCircuit(t, idp, at) ==
    LET rgbaB64 == IF idp.std = <<>> THEN idp.hd ELSE idp.std
    IN  IF idp.err
        THEN [t |-> Failed(t, <<"algo idphoto error: ", "err">>, at), next |-> "return"]
        ELSE IF ~idp.ok
        THEN [t |-> Failed(t, <<"algo idphoto resp not ok">>, at), next |-> "baseline"]
        ELSE IF DecodeBase64(rgbaB64).err
        THEN [t |-> Failed(t, <<"decode baseline error: ">> \o Prefix(rgbaB64), at),
              next |-> "return"]
        ELSE [t |-> t, next |-> "baseline"]

\* Cutout: lines 68-96.
CreateTaskIDPhoto(t, idp, at) ==
    LET rgbaB64 == IF idp.std = <<>> THEN idp.hd ELSE idp.std
    IN  IF idp.err
        THEN [t |-> Failed(t, <<"algo idphoto error: ", "err">>, at), next |-> "return"]
        ELSE IF ~idp.ok
        THEN [t |-> Failed(t, <<"algo idphoto resp not ok">>, at), next |-> "return"]
        ELSE IF DecodeBase64(rgbaB64).err
        THEN [t |-> Failed(t, <<"decode baseline error: ">> \o Prefix(rgbaB64), at),
              next |-> "return"]
        ELSE [t |-> t, next |-> "baseline"]

\* Baseline write: lines 97-105.
CreateTaskBaseline(t, writeErr, at) ==
    IF writeErr
    THEN [t |-> Failed(t, <<"write baseline error">>, at), next |-> "return"]
    ELSE [t |-> [t EXCEPT !.baselineUrl = WriteFileURL(t.id, "baseline.png")],
          next |-> "recolor"]

\* Recolor: lines 107-135.
CreateTaskRecolor(t, bg, at) ==
    IF bg.err
    THEN [t |-> Failed(t, <<"algo add_background error: ", "err">>, at), next |-> "return"]
    ELSE IF ~bg.ok
    THEN [t |-> Failed(t, <<"algo add_background resp not ok">>, at), next |-> "return"]
    ELSE IF DecodeBase64(bg.img).err
    THEN [t |-> Failed(t, <<"decode image error: ">> \o Prefix(bg.img), at),
          next |-> "return"]
    ELSE [t |-> t, next |-> "variant"]

\* The variant write building its final Task without the baseline reference.
CreateTaskVariant_ResetsBaseline(t, defaultBackground, writeErr, at) ==
    LET bgColor == IF defaultBackground = "" THEN "white" ELSE defaultBackground
    IN  IF writeErr
        THEN [t |-> Failed(t, <<"write image error">>, at), next |-> "return"]
        ELSE [t |-> [t EXCEPT
                        !.baselineUrl = <<>>,
                        !.processedUrls = MapPut(@, bgColor, WriteURL(t.id, bgColor)),
                        !.status = StatusDone,
                        !.updatedAt = at],
              next |-> "return"]

\* Variant write: lines 136-149.
CreateTaskVariant(t, defaultBackground, writeErr, at) ==
    LET bgColor == IF defaultBackground = "" THEN "white" ELSE defaultBackground
    IN  IF writeErr
        THEN [t |-> Failed(t, <<"write image error">>, at), next |-> "return"]
        ELSE [t |-> [t EXCEPT
                        !.processedUrls = MapPut(@, bgColor, WriteURL(t.id, bgColor)),
                        !.status = StatusDone,
                        !.updatedAt = at],
              next |-> "return"]

\* The repository after a step that left the local Task as t: a step that
\* returns has called Repo.Put(t); a step that goes on has not, and the stored
\* record changes only on the in-memory repository, which holds t itself.
StepRepo(kind, repo, s) ==
    IF s.next = "return" \/ kind = "memory" THEN TaskPut(kind, repo, s.t) ELSE repo

\* The request after a step: the local Task, the calls made so far.
StepProc(pr, s, call) ==
    IF s.next = "return" THEN [pc |-> "idle"]
    ELSE [pr EXCEPT !.pc = s.next, !.t = s.t, !.calls = Append(@, call)]

StepRet(old, pr, s, call) ==
    IF s.next = "return"
    THEN [op |-> "CreateTask", color |-> pr.color, kind |-> "ok", val |-> s.t,
          calls |-> Append(pr.calls, call)]
    ELSE old

\* The Task a request in flight works on: the in-memory repository stores
\* the pointer, so the local Task is the stored one, with whatever another
\* request did to it; with the Postgres repository it is the request's own.
LocalTask(p) ==
    IF repoKind = "memory" THEN TaskGet(taskRepo, procs[p].t.id) ELSE procs[p].t

\* Lines 52-67: the Task is built and stored with status processing.
CreateTaskStart(p, userID, defaultBackground) ==
    /\ procs[p].pc = "idle"
    /\ Cardinality(DOMAIN taskRepo) < MaxTasks
    /\ LET t == NewTask(randomID(nextId + 1), userID, now)
       IN  /\ taskRepo' = TaskPut(repoKind, taskRepo, t)
           /\ procs' = [procs EXCEPT ![p] = [pc |-> "idphoto", t |-> t,
                                             color |-> defaultBackground,
                                             calls |-> <<>>, baselineAt |-> ZeroTime]]
    /\ nextId' = nextId + 1
    /\ UNCHANGED <<now, repoKind, orderRepo, tokenRepo, ret, okCount, payLog, files,
                   bgLog>>

CreateTaskIDPhotoStep(p, idp) ==
    /\ procs[p].pc = "idphoto"
    /\ LET s == CreateTaskIDPhoto(LocalTask(p), idp, now)
       IN  /\ taskRepo' = StepRepo(repoKind, taskRepo, s)
           /\ procs' = [procs EXCEPT ![p] = StepProc(@, s, "IDPhoto")]
           /\ ret' = StepRet(ret, procs[p], s, "IDPhoto")
    /\ UNCHANGED <<now, nextId, repoKind, orderRepo, tokenRepo, okCount, payLog, files,
                   bgLog>>

CreateTaskBaselineStep(p, writeErr) ==
    /\ procs[p].pc = "baseline"
    /\ LET s == CreateTaskBaseline(LocalTask(p), writeErr, now)
       IN  /\ taskRepo' = StepRepo(repoKind, taskRepo, s)
           /\ procs' = [procs EXCEPT ![p] =
                            IF s.next = "return" THEN StepProc(@, s, "WriteFile")
                            ELSE [StepProc(@, s, "WriteFile") EXCEPT !.baselineAt = now]]
           /\ ret' = StepRet(ret, procs[p], s, "WriteFile")
           /\ files' = IF writeErr THEN files
                       ELSE files \cup {<<s.t.id, <<"baseline.png">>>>}
    /\ UNCHANGED <<now, nextId, repoKind, orderRepo, tokenRepo, okCount, payLog, bgLog>>

CreateTaskRecolorStep(p, bg) ==
    /\ procs[p].pc = "recolor"
    /\ LET s == CreateTaskRecolor(LocalTask(p), bg, now)
       IN  /\ taskRepo' = StepRepo(repoKind, taskRepo, s)
           /\ procs' = [procs EXCEPT ![p] = StepProc(@, s, "AddBackgroundBase64")]
           /\ ret' = StepRet(ret, procs[p], s, "AddBackgroundBase64")
    /\ UNCHANGED <<now, nextId, repoKind, orderRepo, tokenRepo, okCount, payLog, files,
                   bgLog>>

CreateTaskVariantStep(p, writeErr) ==
    /\ procs[p].pc = "variant"
    /\ LET s == CreateTaskVariant(LocalTask(p), procs[p].color, writeErr, now)
       IN  /\ taskRepo' = StepRepo(repoKind, taskRepo, s)
           /\ procs' = [procs EXCEPT ![p] = StepProc(@, s, "Write")]
           /\ ret' = StepRet(ret, procs[p], s, "Write")
           /\ files' = IF writeErr THEN files
                       ELSE files \cup {<<s.t.id, <<c, ".jpg">>>> :
                                            c \in DOMAIN s.t.processedUrls}
    /\ UNCHANGED <<now, nextId, repoKind, orderRepo, tokenRepo, okCount, payLog, bgLog>>

\* ------------------------------------------------------- task extensions
\* Colors asked of GenerateBackground / GenerateLayout; the handlers pass the
\* name on as given once it is not blank.
ExtColors == {"white", "blue", "Blue"}

\* strings.ToLower on the color names above.
ToLower(c) == IF c = "Blue" THEN "blue" ELSE c

\* s.Algo.GenerateLayoutPhotosFile: error, not OK, a payload that decodes and
\* one that does not.
LayoutResults ==
    {[err |-> TRUE, ok |-> FALSE, img |-> <<>>],
     [err |-> FALSE, ok |-> FALSE, img |-> <<>>],
     [err |-> FALSE, ok |-> TRUE, img |-> GoodPayload],
     [err |-> FALSE, ok |-> TRUE, img |-> BadPayload]}

\* What the collaborators answer during one GenerateBackground.
\* The asset write is reached only when the recolor answer decodes.
BgGood == [err |-> FALSE, ok |-> TRUE, img |-> GoodPayload]

BackgroundWorlds ==
    {w \in [bg : AddBackgroundResults, variantWriteErr : BOOLEAN] :
        w.variantWriteErr => w.bg = BgGood}

\* What the collaborators answer during one GenerateLayout, its nested
\* GenerateBackground included.
\* The layout service is reached only past the nested GenerateBackground, and
\* the layout write only when the layout answer decodes.
ExtendWorlds ==
    {w \in [bg : AddBackgroundResults, variantWriteErr : BOOLEAN,
            layout : LayoutResults, layoutWriteErr : BOOLEAN] :
        /\ w.variantWriteErr => w.bg = BgGood
        /\ w.layoutWriteErr => w.layout = BgGood
        /\ (w.bg # BgGood \/ w.variantWriteErr)
              => (w.layout = BgGood /\ ~w.layoutWriteErr)}

\* Sheet arguments of GenerateLayout; they are handed to the layout service.
Sizes ==
    {[width |-> 0, height |-> 0, dpi |-> 0, kb |-> 0],
     [width |-> 354, height |-> 472, dpi |-> 300, kb |-> 100]}

BaselineFile(taskID) == <<taskID, <<"baseline.png">>>>
VariantFile(taskID, color) == <<taskID, <<color, ".jpg">>>>
LayoutFile(taskID) == <<taskID, <<"layout_6inch.jpg">>>>

\* What an extension call returns: the error kind or ok, the reference, the
\* repository and the assets directory after it, and how many calls to the
\* processing service and to the asset writer it made.
ExtResult(kind, msg, val, repo, fs, calls, wr) ==
    [kind |-> kind, msg |-> msg, val |-> val, repo |-> repo, files |-> fs,
     algoCalls |-> calls, writes |-> wr]

\* GenerateBackground whose final write leaves the stored record alone when
\* that record already has the color (the first writer wins).
GenerateBackgroundRest_FirstWriterWins(kind, repo, fs, t, taskID, colorName, w, at) ==
    LET url == WriteURL(taskID, colorName)
        t2 == [t EXCEPT !.processedUrls = MapPut(@, colorName, url),
                        !.updatedAt = at]
    IN  IF BaselineFile(taskID) \notin fs
        THEN ExtResult("Error", "read baseline", <<>>, repo, fs, 0, 0)
        ELSE IF w.bg.err
        THEN ExtResult("Error", "add_background", <<>>, repo, fs, 1, 0)
        ELSE IF ~w.bg.ok
        THEN ExtResult("NotFound", "add_background", <<>>, repo, fs, 1, 0)
        ELSE IF DecodeBase64(w.bg.img).err
        THEN ExtResult("Error", "decode", <<>>, repo, fs, 1, 0)
        ELSE IF w.variantWriteErr
        THEN ExtResult("Error", "write", <<>>, repo, fs, 1, 1)
        ELSE IF MapGet(TaskGet(repo, taskID).processedUrls, colorName) # <<>>
        THEN ExtResult("ok", "", url, repo, fs \cup {VariantFile(taskID, colorName)}, 1, 1)
        ELSE ExtResult("ok", "", url, TaskPut(kind, repo, t2),
                       fs \cup {VariantFile(taskID, colorName)}, 1, 1)

\* GenerateBackground recording the variant on the task before the asset
\* write has succeeded.
GenerateBackgroundRest_RecordsBeforeWrite(kind, repo, fs, t, taskID, colorName, w, at) ==
    LET url == WriteURL(taskID, colorName)
        t2 == [t EXCEPT !.processedUrls = MapPut(@, colorName, url),
                        !.updatedAt = at]
    IN  IF BaselineFile(taskID) \notin fs
        THEN ExtResult("Error", "read baseline", <<>>, repo, fs, 0, 0)
        ELSE IF w.bg.err
        THEN ExtResult("Error", "add_background", <<>>, repo, fs, 1, 0)
        ELSE IF ~w.bg.ok
        THEN ExtResult("NotFound", "add_background", <<>>, repo, fs, 1, 0)
        ELSE IF DecodeBase64(w.bg.img).err
        THEN ExtResult("Error", "decode", <<>>, repo, fs, 1, 0)
        ELSE IF w.variantWriteErr
        THEN ExtResult("Error", "write", <<>>, TaskPut(kind, repo, t2), fs, 1, 1)
        ELSE ExtResult("ok", "", url, TaskPut(kind, repo, t2),
                       fs \cup {VariantFile(taskID, colorName)}, 1, 1)

\* GenerateBackground marking the task done when it has stored the variant.
GenerateBackgroundRest_MarksDone(kind, repo, fs, t, taskID, colorName, w, at) ==
    LET url == WriteURL(taskID, colorName)
        t2 == [t EXCEPT !.processedUrls = MapPut(@, colorName, url),
                        !.status = StatusDone, !.errorMsg = <<>>,
                        !.updatedAt = at]
    IN  IF BaselineFile(taskID) \notin fs
        THEN ExtResult("Error", "read baseline", <<>>, repo, fs, 0, 0)
        ELSE IF w.bg.err
        THEN ExtResult("Error", "add_background", <<>>, repo, fs, 1, 0)
        ELSE IF ~w.bg.ok
        THEN ExtResult("NotFound", "add_background", <<>>, repo, fs, 1, 0)
        ELSE IF DecodeBase64(w.bg.img).err
        THEN ExtResult("Error", "decode", <<>>, repo, fs, 1, 0)
        ELSE IF w.variantWriteErr
        THEN ExtResult("Error", "write", <<>>, repo, fs, 1, 1)
        ELSE ExtResult("ok", "", url, TaskPut(kind, repo, t2),
                       fs \cup {VariantFile(taskID, colorName)}, 1, 1)

\* GenerateBackground after Repo.Get returned t without the color: read the
\* baseline, recolor, decode, write the variant, record it on t and Put t.
GenerateBackgroundRest(kind, repo, fs, t, taskID, colorName, w, at) ==
    LET url == WriteURL(taskID, colorName)
        t2 == [t EXCEPT !.processedUrls = MapPut(@, colorName, url),
                        !.updatedAt = at]
    IN  IF BaselineFile(taskID) \notin fs
        THEN ExtResult("Error", "read baseline", <<>>, repo, fs, 0, 0)
        ELSE IF w.bg.err
        THEN ExtResult("Error", "add_background", <<>>, repo, fs, 1, 0)
        ELSE IF ~w.bg.ok
        THEN ExtResult("NotFound", "add_background", <<>>, repo, fs, 1, 0)
        ELSE IF DecodeBase64(w.bg.img).err
        THEN ExtResult("Error", "decode", <<>>, repo, fs, 1, 0)
        ELSE IF w.variantWriteErr
        THEN ExtResult("Error", "write", <<>>, repo, fs, 1, 1)
        ELSE ExtResult("ok", "", url, TaskPut(kind, repo, t2),
                       fs \cup {VariantFile(taskID, colorName)}, 1, 1)

\* GenerateBackground that never looks for a recorded variant.
GenerateBackgroundCall_NoCache(kind, repo, fs, taskID, colorName, w, at) ==
    LET t == TaskGet(repo, taskID)
    IN  IF t = None
        THEN ExtResult("NotFound", "task", <<>>, repo, fs, 0, 0)
        ELSE GenerateBackgroundRest(kind, repo, fs, t, taskID, colorName, w, at)

\* TaskService.GenerateBackground, run to completion.
GenerateBackgroundCall(kind, repo, fs, taskID, colorName, w, at) ==
    LET t == TaskGet(repo, taskID)
    IN  IF t = None
        THEN ExtResult("NotFound", "task", <<>>, repo, fs, 0, 0)
        ELSE IF MapGet(t.processedUrls, colorName) # <<>>
        THEN ExtResult("ok", "", t.processedUrls[colorName], repo, fs, 0, 0)
        ELSE GenerateBackgroundRest(kind, repo, fs, t, taskID, colorName, w, at)

\* GenerateLayout that never looks for a recorded layout.
GenerateLayoutCall_NoCache(kind, repo, fs, taskID, colorName, w, at) ==
    LET t == TaskGet(repo, taskID)
        needBg == colorName \notin DOMAIN t.processedUrls
        bg == GenerateBackgroundCall(kind, repo, fs, taskID, colorName, w, at)
        repo1 == IF needBg THEN bg.repo ELSE repo
        fs1 == IF needBg THEN bg.files ELSE fs
        calls == IF needBg THEN bg.algoCalls ELSE 0
        wr == IF needBg THEN bg.writes ELSE 0
        t1 == IF kind = "memory" THEN TaskGet(repo1, taskID) ELSE t
        url == WriteFileURL(taskID, "layout_6inch.jpg")
        t2 == [t1 EXCEPT !.layoutUrls = MapPut(@, "6inch", url), !.updatedAt = at]
    IN  IF t = None
        THEN ExtResult("NotFound", "task", <<>>, repo, fs, 0, 0)
        ELSE IF needBg /\ (bg.kind # "ok" \/ bg.val = <<>>)
        THEN ExtResult(bg.kind, bg.msg, <<>>, repo1, fs1, calls, wr)
        ELSE IF VariantFile(taskID, ToLower(colorName)) \notin fs1
        THEN ExtResult("Error", "read variant", <<>>, repo1, fs1, calls, wr)
        ELSE IF w.layout.err
        THEN ExtResult("Error", "layout", <<>>, repo1, fs1, calls + 1, wr)
        ELSE IF ~w.layout.ok
        THEN ExtResult("ok", "", <<>>, repo1, fs1, calls + 1, wr)
        ELSE IF DecodeBase64(w.layout.img).err
        THEN ExtResult("Error", "decode", <<>>, repo1, fs1, calls + 1, wr)
        ELSE IF w.layoutWriteErr
        THEN ExtResult("Error", "write", <<>>, repo1, fs1, calls + 1, wr + 1)
        ELSE ExtResult("ok", "", url, TaskPut(kind, repo1, t2),
                       fs1 \cup {LayoutFile(taskID)}, calls + 1, wr + 1)

\* TaskService.GenerateLayout, run to completion. t is what Repo.Get returned
\* at the top; the in-memory repository hands out the stored Task itself, so
\* after the nested GenerateBackground t holds the entry that call recorded,
\* while the Postgres repository hands out a copy made at the time of the Get.
\* When the layout service answers not OK without an error the code returns
\* the empty reference and a nil error.
GenerateLayoutCall(kind, repo, fs, taskID, colorName, w, at) ==
    LET t == TaskGet(repo, taskID)
        needBg == colorName \notin DOMAIN t.processedUrls
        bg == GenerateBackgroundCall(kind, repo, fs, taskID, colorName, w, at)
        repo1 == IF needBg THEN bg.repo ELSE repo
        fs1 == IF needBg THEN bg.files ELSE fs
        calls == IF needBg THEN bg.algoCalls ELSE 0
        wr == IF needBg THEN bg.writes ELSE 0
        t1 == IF kind = "memory" THEN TaskGet(repo1, taskID) ELSE t
        url == WriteFileURL(taskID, "layout_6inch.jpg")
        t2 == [t1 EXCEPT !.layoutUrls = MapPut(@, "6inch", url), !.updatedAt = at]
    IN  IF t = None
        THEN ExtResult("NotFound", "task", <<>>, repo, fs, 0, 0)
        ELSE IF MapGet(t.layoutUrls, "6inch") # <<>>
        THEN ExtResult("ok", "", t.layoutUrls["6inch"], repo, fs, 0, 0)
        ELSE IF needBg /\ (bg.kind # "ok" \/ bg.val = <<>>)
        THEN ExtResult(bg.kind, bg.msg, <<>>, repo1, fs1, calls, wr)
        ELSE IF VariantFile(taskID, ToLower(colorName)) \notin fs1
        THEN ExtResult("Error", "read variant", <<>>, repo1, fs1, calls, wr)
        ELSE IF w.layout.err
        THEN ExtResult("Error", "layout", <<>>, repo1, fs1, calls + 1, wr)
        ELSE IF ~w.layout.ok
        THEN ExtResult("ok", "", <<>>, repo1, fs1, calls + 1, wr)
        ELSE IF DecodeBase64(w.layout.img).err
        THEN ExtResult("Error", "decode", <<>>, repo1, fs1, calls + 1, wr)
        ELSE IF w.layoutWriteErr
        THEN ExtResult("Error", "write", <<>>, repo1, fs1, calls + 1, wr + 1)
        ELSE ExtResult("ok", "", url, TaskPut(kind, repo1, t2),
                       fs1 \cup {LayoutFile(taskID)}, calls + 1, wr + 1)

\* History: the reference the first successful GenerateBackground call for
\* (taskID, colorName) returned.
BgReturned(log, taskID, colorName) ==
    IF <<taskID, colorName>> \in DOMAIN log THEN log[<<taskID, colorName>>] ELSE None

LogBackground(log, taskID, colorName, r) ==
    IF r.kind # "ok" \/ <<taskID, colorName>> \in DOMAIN log THEN log
    ELSE [x \in (DOMAIN log) \cup {<<taskID, colorName>>} |->
            IF x = <<taskID, colorName>> THEN r.val ELSE log[x]]

ExtTaskIds == {<<"zz">>} \cup DOMAIN taskRepo

GenerateBackground(taskID, colorName, w) ==
    /\ LET r == GenerateBackgroundCall(repoKind, taskRepo, files, taskID, colorName,
                                       w, now)
       IN  /\ taskRepo' = r.repo
           /\ files' = r.files
           /\ ret' = [op |-> "GenerateBackground", taskId |-> taskID,
                      color |-> colorName, pre |-> TaskGet(taskRepo, taskID),
                      prev |-> BgReturned(bgLog, taskID, colorName),
                      kind |-> r.kind, val |-> r.val,
                      algoCalls |-> r.algoCalls, writes |-> r.writes]
           /\ bgLog' = LogBackground(bgLog, taskID, colorName, r)
    /\ UNCHANGED <<now, nextId, repoKind, orderRepo, tokenRepo, okCount, payLog, procs>>

GenerateLayout(taskID, colorName, size, w) ==
    /\ LET r == GenerateLayoutCall(repoKind, taskRepo, files, taskID, colorName, w, now)
       IN  /\ taskRepo' = r.repo
           /\ files' = r.files
           /\ ret' = [op |-> "GenerateLayout", taskId |-> taskID,
                      color |-> colorName, size |-> size,
                      pre |-> TaskGet(taskRepo, taskID),
                      kind |-> r.kind, val |-> r.val,
                      algoCalls |-> r.algoCalls, writes |-> r.writes]
    /\ UNCHANGED <<now, nextId, repoKind, orderRepo, tokenRepo, okCount, payLog, procs,
                   bgLog>>

\* Concurrent requests: GenerateBackground split at its two repository calls.
GenerateBackgroundGet(p, taskID, colorName) ==
    /\ procs[p].pc = "idle"
    /\ LET t == TaskGet(taskRepo, taskID)
       IN  /\ t # None
           /\ MapGet(t.processedUrls, colorName) = <<>>
           /\ procs' = [procs EXCEPT ![p] = [pc |-> "bgGot", taskId |-> taskID,
                                             color |-> colorName, t |-> t]]
    /\ UNCHANGED <<now, nextId, repoKind, taskRepo, orderRepo, tokenRepo, ret, okCount,
                   payLog, files, bgLog>>

GenerateBackgroundFinish(p, w) ==
    /\ procs[p].pc = "bgGot"
    /\ LET taskID == procs[p].taskId
           colorName == procs[p].color
           r == GenerateBackgroundRest(repoKind, taskRepo, files, procs[p].t, taskID,
                                       colorName, w, now)
       IN  /\ taskRepo' = r.repo
           /\ files' = r.files
           /\ ret' = [op |-> "GenerateBackground", taskId |-> taskID,
                      color |-> colorName, pre |-> TaskGet(taskRepo, taskID),
                      prev |-> BgReturned(bgLog, taskID, colorName),
                      kind |-> r.kind, val |-> r.val,
                      algoCalls |-> r.algoCalls, writes |-> r.writes, proc |-> p]
           /\ bgLog' = LogBackground(bgLog, taskID, colorName, r)
           /\ procs' = [procs EXCEPT ![p] =
                            [pc |-> "bgDone", taskId |-> taskID, color |-> colorName,
                             t |-> procs[p].t, kind |-> r.kind, val |-> r.val,
                             algoCalls |-> r.algoCalls, writes |-> r.writes,
                             put |-> IF r.kind = "ok"
                                     THEN [procs[p].t EXCEPT
                                             !.processedUrls =
                                                 MapPut(@, colorName, r.val),
                                             !.updatedAt = now]
                                     ELSE None]]
    /\ UNCHANGED <<now, nextId, repoKind, orderRepo, tokenRepo, okCount, payLog>>

\* The handler answers the request; the goroutine ends.
GenerateBackgroundReturn(p) ==
    /\ procs[p].pc = "bgDone"
    /\ procs' = [procs EXCEPT ![p] = [pc |-> "idle"]]
    /\ UNCHANGED <<now, nextId, repoKind, taskRepo, orderRepo, tokenRepo, ret, okCount,
                   payLog, files, bgLog>>

\* ------------------------------------------------- download-token lifecycle
DownloadTokenActive == "active"
DownloadTokenUsed == "used"
DownloadTokenExpired == "expired"
DownloadTokenRevoked == "revoked"

\* ttlSeconds is a Go int (64 bits) taken from the request body unvalidated.
\* Seconds(k, s) stands for the value k * 2^55 + s, with s small.
Seconds(k, s) == [k |-> k, s |-> s]

\* ttlSeconds <= 0
NonPositive(ttl) == ttl.k < 0 \/ (ttl.k = 0 /\ ttl.s <= 0)

\* time.Duration(ttlSeconds) * time.Second is an int64 count of nanoseconds
\* and wraps modulo 2^64.  2^55 * 10^9 = 1953125 * 2^64, so the k * 2^55 part
\* of ttlSeconds contributes nothing and the duration is exactly s seconds.
DurationSeconds(ttl) == ttl.s

TTLs == {Seconds(0, -1), Seconds(0, 0), Seconds(0, 1), Seconds(1, -1)}

\* PostgresRepo.PutToken: insert the row, or replace it.
PutToken(repo, tk) ==
    [x \in (DOMAIN repo) \cup {tk.token} |-> IF x = tk.token THEN tk ELSE repo[x]]

\* PostgresRepo.GetToken: a fresh copy of the row, or not found.
GetToken(repo, token) == IF token \in DOMAIN repo THEN repo[token] ELSE None

\* PostgresRepo.UpdateToken: UPDATE download_tokens SET status, expires_at,
\* created_at, used_at WHERE token = tk.token, whatever the row holds.
UpdateToken(repo, tk) ==
    IF tk.token \in DOMAIN repo
    THEN [repo EXCEPT ![tk.token] =
            [@ EXCEPT !.status = tk.status, !.expiresAt = tk.expiresAt,
                      !.createdAt = tk.createdAt, !.usedAt = tk.usedAt]]
    ELSE repo

\* CreateToken without the status check of line 257.
CreateTokenCall_NoStatusCheck(tasks, repo, taskID, userID, ttlSeconds, t, fresh) ==
    LET task == TaskGet(tasks, taskID)
        ttl == IF NonPositive(ttlSeconds) THEN Seconds(0, DefaultTTL) ELSE ttlSeconds
        dt == [token |-> fresh, taskId |-> taskID, userId |-> userID,
               status |-> DownloadTokenActive, expiresAt |-> t + DurationSeconds(ttl),
               createdAt |-> t, usedAt |-> ZeroTime]
    IN  IF TrimSpace(taskID) = <<>>
        THEN [kind |-> "BadRequest", msg |-> "taskId required", val |-> None, repo |-> repo]
        ELSE IF TrimSpace(userID) = <<>>
        THEN [kind |-> "BadRequest", msg |-> "userId required", val |-> None, repo |-> repo]
        ELSE IF task = None
        THEN [kind |-> "NotFound", msg |-> "task", val |-> None, repo |-> repo]
        ELSE IF TrimSpace(task.userId) # <<>>
                /\ TrimSpace(task.userId) # TrimSpace(userID)
        THEN [kind |-> "BadRequest", msg |-> "task not owned", val |-> None, repo |-> repo]
        ELSE [kind |-> "ok", msg |-> "", val |-> dt, repo |-> PutToken(repo, dt)]

\* CreateToken without the ownership check of line 260.
CreateTokenCall_NoOwnerCheck(tasks, repo, taskID, userID, ttlSeconds, t, fresh) ==
    LET task == TaskGet(tasks, taskID)
        ttl == IF NonPositive(ttlSeconds) THEN Seconds(0, DefaultTTL) ELSE ttlSeconds
        dt == [token |-> fresh, taskId |-> taskID, userId |-> userID,
               status |-> DownloadTokenActive, expiresAt |-> t + DurationSeconds(ttl),
               createdAt |-> t, usedAt |-> ZeroTime]
    IN  IF TrimSpace(taskID) = <<>>
        THEN [kind |-> "BadRequest", msg |-> "taskId required", val |-> None, repo |-> repo]
        ELSE IF TrimSpace(userID) = <<>>
        THEN [kind |-> "BadRequest", msg |-> "userId required", val |-> None, repo |-> repo]
        ELSE IF task = None
        THEN [kind |-> "NotFound", msg |-> "task", val |-> None, repo |-> repo]
        ELSE IF task.status # StatusDone
        THEN [kind |-> "BadRequest", msg |-> "task not ready", val |-> None, repo |-> repo]
        ELSE [kind |-> "ok", msg |-> "", val |-> dt, repo |-> PutToken(repo, dt)]

\* DownloadService.CreateToken: what it returns and the token repository after.
CreateTokenCall(tasks, repo, taskID, userID, ttlSeconds, t, fresh) ==
    LET task == TaskGet(tasks, taskID)
        ttl == IF NonPositive(ttlSeconds) THEN Seconds(0, DefaultTTL) ELSE ttlSeconds
        dt == [token |-> fresh, taskId |-> taskID, userId |-> userID,
               status |-> DownloadTokenActive, expiresAt |-> t + DurationSeconds(ttl),
               createdAt |-> t, usedAt |-> ZeroTime]
    IN  IF TrimSpace(taskID) = <<>>
        THEN [kind |-> "BadRequest", msg |-> "taskId required", val |-> None, repo |-> repo]
        ELSE IF TrimSpace(userID) = <<>>
        THEN [kind |-> "BadRequest", msg |-> "userId required", val |-> None, repo |-> repo]
        ELSE IF task = None
        THEN [kind |-> "NotFound", msg |-> "task", val |-> None, repo |-> repo]
        ELSE IF task.status # StatusDone
        THEN [kind |-> "BadRequest", msg |-> "task not ready", val |-> None, repo |-> repo]
        ELSE IF TrimSpace(task.userId) # <<>>
                /\ TrimSpace(task.userId) # TrimSpace(userID)
        THEN [kind |-> "BadRequest", msg |-> "task not owned", val |-> None, repo |-> repo]
        ELSE [kind |-> "ok", msg |-> "", val |-> dt, repo |-> PutToken(repo, dt)]

\* UseToken without the check that the token is active.
UseTokenDecide_NoStatusCheck(dt, t) ==
    IF t > dt.expiresAt
    THEN [kind |-> "BadRequest", msg |-> "token expired", val |-> None,
          upd |-> [dt EXCEPT !.status = DownloadTokenExpired, !.usedAt = t]]
    ELSE LET used == [dt EXCEPT !.status = DownloadTokenUsed, !.usedAt = t]
         IN  [kind |-> "ok", msg |-> "", val |-> used, upd |-> used]

\* UseTokenDecide rejecting an expired token without persisting the expiry.
UseTokenDecide_ExpiryNotPersisted(dt, t) ==
    IF dt.status # DownloadTokenActive
    THEN [kind |-> "Conflict", msg |-> "token not active", val |-> None, upd |-> None]
    ELSE IF t > dt.expiresAt
    THEN [kind |-> "BadRequest", msg |-> "token expired", val |-> None, upd |-> None]
    ELSE LET used == [dt EXCEPT !.status = DownloadTokenUsed, !.usedAt = t]
         IN  [kind |-> "ok", msg |-> "", val |-> used, upd |-> used]

\* UseToken checking the expiry before the status.
UseTokenDecide_ExpiryFirst(dt, t) ==
    IF t > dt.expiresAt
    THEN [kind |-> "BadRequest", msg |-> "token expired", val |-> None,
          upd |-> [dt EXCEPT !.status = DownloadTokenExpired, !.usedAt = t]]
    ELSE IF dt.status # DownloadTokenActive
    THEN [kind |-> "Conflict", msg |-> "token not active", val |-> None, upd |-> None]
    ELSE LET used == [dt EXCEPT !.status = DownloadTokenUsed, !.usedAt = t]
         IN  [kind |-> "ok", msg |-> "", val |-> used, upd |-> used]

\* UseToken treating the instant expiresAt itself as expired.
UseTokenDecide_ExpiresAtExcluded(dt, t) ==
    IF dt.status # DownloadTokenActive
    THEN [kind |-> "Conflict", msg |-> "token not active", val |-> None, upd |-> None]
    ELSE IF t >= dt.expiresAt
    THEN [kind |-> "BadRequest", msg |-> "token expired", val |-> None,
          upd |-> [dt EXCEPT !.status = DownloadTokenExpired, !.usedAt = t]]
    ELSE LET used == [dt EXCEPT !.status = DownloadTokenUsed, !.usedAt = t]
         IN  [kind |-> "ok", msg |-> "", val |-> used, upd |-> used]

\* DownloadService.UseToken after GetToken found dt, at time t: the status
\* check, the expiry check and the record handed to UpdateToken.
UseTokenDecide(dt, t) ==
    IF dt.status # DownloadTokenActive
    THEN [kind |-> "Conflict", msg |-> "token not active", val |-> None, upd |-> None]
    ELSE IF t > dt.expiresAt
    THEN [kind |-> "BadRequest", msg |-> "token expired", val |-> None,
          upd |-> [dt EXCEPT !.status = DownloadTokenExpired, !.usedAt = t]]
    ELSE LET used == [dt EXCEPT !.status = DownloadTokenUsed, !.usedAt = t]
         IN  [kind |-> "ok", msg |-> "", val |-> used, upd |-> used]

\* DownloadService.UseToken, run to completion.
UseTokenCall(repo, tokenIn, t) ==
    LET token == TrimSpace(tokenIn)
        dt == GetToken(repo, token)
        d == UseTokenDecide(dt, t)
    IN  IF token = <<>>
        THEN [kind |-> "BadRequest", msg |-> "token required", val |-> None, repo |-> repo]
        ELSE IF dt = None
        THEN [kind |-> "NotFound", msg |-> "token", val |-> None, repo |-> repo]
        ELSE [kind |-> d.kind, msg |-> d.msg, val |-> d.val,
              repo |-> IF d.upd = None THEN repo ELSE UpdateToken(repo, d.upd)]

\* History: one more successful UseToken on token (2 stands for two or more).
CountOk(cnt, token, kind) ==
    IF kind # "ok" THEN cnt
    ELSE [x \in (DOMAIN cnt) \cup {token} |->
            IF x = token
            THEN (IF token \in DOMAIN cnt /\ cnt[token] >= 1 THEN 2 ELSE 1)
            ELSE cnt[x]]

OkCountOf(token) == IF token \in DOMAIN okCount THEN okCount[token] ELSE 0

TaskIdInputs == {<<>>, <<" ">>, <<"zz">>} \cup DOMAIN taskRepo
TokenInputs ==
    {<<>>, <<" ">>, <<"zz">>} \cup DOMAIN tokenRepo
        \cup {<<" ">> \o k : k \in DOMAIN tokenRepo}

CreateToken(taskID, userID, ttlSeconds) ==
    /\ Cardinality(DOMAIN tokenRepo) < MaxTokens
    /\ LET r == CreateTokenCall(taskRepo, tokenRepo, taskID, userID, ttlSeconds,
                                now, randomID(nextId + 1))
       IN  /\ tokenRepo' = r.repo
           /\ ret' = [op |-> "CreateToken", taskId |-> taskID, userId |-> userID,
                      ttl |-> ttlSeconds, at |-> now, kind |-> r.kind,
                      msg |-> r.msg, val |-> r.val, tokensBefore |-> tokenRepo]
           /\ nextId' = IF r.kind = "ok" THEN nextId + 1 ELSE nextId
    /\ UNCHANGED <<now, repoKind, taskRepo, orderRepo, okCount, payLog, procs,
                   files, bgLog>>

UseToken(tokenIn) ==
    /\ LET r == UseTokenCall(tokenRepo, tokenIn, now)
           token == TrimSpace(tokenIn)
       IN  /\ tokenRepo' = r.repo
           /\ ret' = [op |-> "UseToken", token |-> token, at |-> now,
                      pre |-> GetToken(tokenRepo, token),
                      afterOk |-> OkCountOf(token) >= 1,
                      kind |-> r.kind, msg |-> r.msg, val |-> r.val]
           /\ okCount' = CountOk(okCount, token, r.kind)
    /\ UNCHANGED <<now, nextId, repoKind, taskRepo, orderRepo, payLog, procs,
                   files, bgLog>>

\* Server.assetEntry: the path below /assets/ that a reference names, empty
\* when the reference is empty or names none (ok = false).
assetEntry(url) ==
    LET idx == {i \in 1..Len(url) : url[i] = "/assets/"}
        first == CHOOSE i \in idx : \A j \in idx : i <= j
    IN  IF idx = {} THEN <<>>
        ELSE IF first = Len(url) THEN <<>>
        ELSE SubSeq(url, first + 1, Len(url))

\* The download request looking at the task and its assets before it redeems
\* the token.
handleDownloadFileCall_ChecksFirst(tasks, repo, tokenIn, statErr, at) ==
    LET token == TrimSpace(tokenIn)
        dt == GetToken(repo, TrimSpace(token))
        t == IF dt = None THEN None ELSE TaskGet(tasks, dt.taskId)
        urls == {t.baselineUrl} \cup {t.processedUrls[c] : c \in DOMAIN t.processedUrls}
                    \cup {t.layoutUrls[k] : k \in DOMAIN t.layoutUrls}
        entries == {assetEntry(u) : u \in urls} \ {<<>>}
        r == UseTokenCall(repo, token, at)
        resp(code, msg, redeemed, rp) ==
            [code |-> code, msg |-> msg, redeemed |-> redeemed, repo |-> rp]
    IN  IF dt = None THEN resp(404, r.msg, FALSE, repo)
        ELSE IF t = None THEN resp(404, "task not found", FALSE, repo)
        ELSE IF t.status # StatusDone THEN resp(400, "task not ready", FALSE, repo)
        ELSE IF entries = {} THEN resp(404, "assets not found", FALSE, repo)
        ELSE IF statErr THEN resp(404, "asset not found", FALSE, repo)
        ELSE IF r.kind = "NotFound" THEN resp(404, r.msg, FALSE, r.repo)
        ELSE IF r.kind = "Conflict" THEN resp(409, r.msg, FALSE, r.repo)
        ELSE IF r.kind = "BadRequest" THEN resp(400, r.msg, FALSE, r.repo)
        ELSE resp(200, "zip", TRUE, r.repo)

\* Server.handleDownloadFile: UseToken, then the task, then its assets, then
\* the archive. statErr: os.Stat fails for one of the files.
handleDownloadFileCall(tasks, repo, tokenIn, statErr, at) ==
    LET token == TrimSpace(tokenIn)
        r == UseTokenCall(repo, token, at)
        t == TaskGet(tasks, r.val.taskId)
        urls == {t.baselineUrl} \cup {t.processedUrls[c] : c \in DOMAIN t.processedUrls}
                    \cup {t.layoutUrls[k] : k \in DOMAIN t.layoutUrls}
        entries == {assetEntry(u) : u \in urls} \ {<<>>}
        resp(code, msg, redeemed) ==
            [code |-> code, msg |-> msg, redeemed |-> redeemed, repo |-> r.repo]
    IN  IF r.kind = "NotFound" THEN resp(404, r.msg, FALSE)
        ELSE IF r.kind = "Conflict" THEN resp(409, r.msg, FALSE)
        ELSE IF r.kind = "BadRequest" THEN resp(400, r.msg, FALSE)
        ELSE IF t = None THEN resp(404, "task not found", TRUE)
        ELSE IF t.status # StatusDone THEN resp(400, "task not ready", TRUE)
        ELSE IF entries = {} THEN resp(404, "assets not found", TRUE)
        ELSE IF statErr THEN resp(404, "asset not found", TRUE)
        ELSE resp(200, "zip", TRUE)

handleDownloadFile(tokenIn, statErr) ==
    /\ LET r == handleDownloadFileCall(taskRepo, tokenRepo, tokenIn, statErr, now)
           token == TrimSpace(tokenIn)
       IN  /\ tokenRepo' = r.repo
           /\ ret' = [op |-> "handleDownloadFile", token |-> token, at |-> now,
                      pre |-> GetToken(tokenRepo, token),
                      afterOk |-> OkCountOf(token) >= 1,
                      code |-> r.code, msg |-> r.msg, redeemed |-> r.redeemed]
           /\ okCount' = CountOk(okCount, token, IF r.redeemed THEN "ok" ELSE "")
    /\ UNCHANGED <<now, nextId, repoKind, taskRepo, orderRepo, payLog, procs,
                   files, bgLog>>

\* Concurrent requests: UseToken split at its two repository calls.
UseTokenGet(p, tokenIn) ==
    /\ procs[p].pc = "idle"
    /\ LET token == TrimSpace(tokenIn)
           dt == GetToken(tokenRepo, token)
       IN  /\ token # <<>>
           /\ dt # None
           /\ procs' = [procs EXCEPT ![p] = [pc |-> "got", token |-> token, dt |-> dt]]
    /\ UNCHANGED <<now, nextId, repoKind, taskRepo, orderRepo, tokenRepo, ret,
                   okCount, payLog,
                   files, bgLog>>

UseTokenFinish(p) ==
    /\ procs[p].pc = "got"
    /\ LET d == UseTokenDecide(procs[p].dt, now)
           token == procs[p].token
       IN  /\ tokenRepo' = IF d.upd = None THEN tokenRepo
                           ELSE UpdateToken(tokenRepo, d.upd)
           /\ ret' = [op |-> "UseToken", token |-> token, at |-> now,
                      pre |-> procs[p].dt, afterOk |-> OkCountOf(token) >= 1,
                      kind |-> d.kind, msg |-> d.msg, val |-> d.val]
           /\ okCount' = CountOk(okCount, token, d.kind)
    /\ procs' = [procs EXCEPT ![p] = [pc |-> "idle"]]
    /\ UNCHANGED <<now, nextId, repoKind, taskRepo, orderRepo, payLog,
                   files, bgLog>>

\* ------------------------------------------------ order / payment machine
OrderCreated == "created"
OrderPending == "pending"
OrderPaid == "paid"
OrderCanceled == "canceled"
OrderRefunded == "refunded"

Channels == {"wechat", "douyin"}
Keys == {"", "k1", "k2"}
StatusTokens == {"paid", "pending", "canceled", "refunded", "created", "PAID"}
WechatAppID == <<"wx-app">>

\* What handleOrders hands to OrderService.Create.
OrderReqs ==
    {[taskId |-> <<"1">>, items |-> <<[type |-> "print", qty |-> 1]>>,
      amountCents |-> 100, channel |-> "wechat"]}

\* OrderRepo.Put / Get (MemoryOrderRepo; PostgresRepo.PutOrder writes every
\* column of the order).
OrderPut(repo, o) ==
    [x \in (DOMAIN repo) \cup {o.orderId} |-> IF x = o.orderId THEN o ELSE repo[x]]

OrderGet(repo, id) == IF id \in DOMAIN repo THEN repo[id] ELSE None

\* encoding/json on the intent map: Marshal writes the members in key order,
\* Unmarshal reads them back into a map.
IntentKeys == <<"appId", "nonceStr", "package", "paySign", "signType", "timeStamp">>

JsonMarshal(m) == [i \in 1..Len(IntentKeys) |-> <<IntentKeys[i], m[IntentKeys[i]]>>]

JsonUnmarshal(raw) ==
    [err |-> raw = <<>>,
     val |-> [k \in {raw[i][1] : i \in 1..Len(raw)} |->
                raw[CHOOSE i \in 1..Len(raw) : raw[i][1] = k][2]]]

\* The mock payment intent of Pay: prepay id and nonce are fresh random ids.
NewIntent(t, prepayID, nonce) ==
    [k \in {IntentKeys[i] : i \in 1..Len(IntentKeys)} |->
        CASE k = "appId" -> WechatAppID
          [] k = "timeStamp" -> <<ToString(t)>>
          [] k = "nonceStr" -> nonce
          [] k = "package" -> <<"prepay_id=", "mock-">> \o prepayID
          [] k = "signType" -> <<"RSA">>
          [] k = "paySign" -> <<"MOCK_SIGN">>]

\* OrderService.Create
OrderCreate(repo, req, t, id) ==
    OrderPut(repo,
        [orderId |-> id, taskId |-> req.taskId, items |-> req.items,
         amountCents |-> req.amountCents, channel |-> req.channel,
         status |-> OrderCreated, payIdempotencyKey |-> "", payParams |-> <<>>,
         createdAt |-> t, updatedAt |-> t])

\* Pay synthesizing a new intent on every call (no replay of the cached one).
PayCall_NoCache(repo, orderID, channel, idempotencyKey, t, n) ==
    LET o == OrderGet(repo, orderID)
        p == NewIntent(t, randomID(n + 1), randomID(n + 2))
        o2 == [o EXCEPT !.channel = channel, !.status = OrderPending,
                        !.payIdempotencyKey = idempotencyKey, !.updatedAt = t,
                        !.payParams = JsonMarshal(p)]
    IN  IF o = None
        THEN [kind |-> "NotFound", msg |-> "order", val |-> None, repo |-> repo, drawn |-> 0]
        ELSE IF o.status = OrderPaid
        THEN [kind |-> "Conflict", msg |-> "order already paid", val |-> None,
              repo |-> repo, drawn |-> 0]
        ELSE IF o.payIdempotencyKey # "" /\ o.payIdempotencyKey # idempotencyKey
        THEN [kind |-> "Conflict", msg |-> "idempotency key mismatch", val |-> None,
              repo |-> repo, drawn |-> 0]
        ELSE [kind |-> "ok", msg |-> "", val |-> p, repo |-> OrderPut(repo, o2),
              drawn |-> 2]

\* Pay without the key-mismatch check of lines 214-216.
PayCall_NoKeyCheck(repo, orderID, channel, idempotencyKey, t, n) ==
    LET o == OrderGet(repo, orderID)
        cached == JsonUnmarshal(o.payParams)
        p == NewIntent(t, randomID(n + 1), randomID(n + 2))
        o2 == [o EXCEPT !.channel = channel, !.status = OrderPending,
                        !.payIdempotencyKey = idempotencyKey, !.updatedAt = t,
                        !.payParams = JsonMarshal(p)]
    IN  IF o = None
        THEN [kind |-> "NotFound", msg |-> "order", val |-> None, repo |-> repo, drawn |-> 0]
        ELSE IF o.status = OrderPaid
        THEN [kind |-> "Conflict", msg |-> "order already paid", val |-> None,
              repo |-> repo, drawn |-> 0]
        ELSE IF o.payIdempotencyKey = idempotencyKey /\ o.payParams # <<>> /\ ~cached.err
        THEN [kind |-> "ok", msg |-> "", val |-> cached.val, repo |-> repo, drawn |-> 0]
        ELSE [kind |-> "ok", msg |-> "", val |-> p, repo |-> OrderPut(repo, o2),
              drawn |-> 2]

\* Pay replaying the cached intent before it looks at the paid status.
PayCall_ReplayBeforePaid(repo, orderID, channel, idempotencyKey, t, n) ==
    LET o == OrderGet(repo, orderID)
        cached == JsonUnmarshal(o.payParams)
        p == NewIntent(t, randomID(n + 1), randomID(n + 2))
        o2 == [o EXCEPT !.channel = channel, !.status = OrderPending,
                        !.payIdempotencyKey = idempotencyKey, !.updatedAt = t,
                        !.payParams = JsonMarshal(p)]
    IN  IF o = None
        THEN [kind |-> "NotFound", msg |-> "order", val |-> None, repo |-> repo, drawn |-> 0]
        ELSE IF o.payIdempotencyKey = idempotencyKey /\ o.payParams # <<>> /\ ~cached.err
        THEN [kind |-> "ok", msg |-> "", val |-> cached.val, repo |-> repo, drawn |-> 0]
        ELSE IF o.status = OrderPaid
        THEN [kind |-> "Conflict", msg |-> "order already paid", val |-> None,
              repo |-> repo, drawn |-> 0]
        ELSE IF o.payIdempotencyKey # "" /\ o.payIdempotencyKey # idempotencyKey
        THEN [kind |-> "Conflict", msg |-> "idempotency key mismatch", val |-> None,
              repo |-> repo, drawn |-> 0]
        ELSE [kind |-> "ok", msg |-> "", val |-> p, repo |-> OrderPut(repo, o2),
              drawn |-> 2]

\* Pay whose replay records the channel and the time of the replay.
PayCall_ReplayTouches(repo, orderID, channel, idempotencyKey, t, n) ==
    LET o == OrderGet(repo, orderID)
        cached == JsonUnmarshal(o.payParams)
        p == NewIntent(t, randomID(n + 1), randomID(n + 2))
        o2 == [o EXCEPT !.channel = channel, !.status = OrderPending,
                        !.payIdempotencyKey = idempotencyKey, !.updatedAt = t,
                        !.payParams = JsonMarshal(p)]
    IN  IF o = None
        THEN [kind |-> "NotFound", msg |-> "order", val |-> None, repo |-> repo, drawn |-> 0]
        ELSE IF o.status = OrderPaid
        THEN [kind |-> "Conflict", msg |-> "order already paid", val |-> None,
              repo |-> repo, drawn |-> 0]
        ELSE IF o.payIdempotencyKey # "" /\ o.payIdempotencyKey # idempotencyKey
        THEN [kind |-> "Conflict", msg |-> "idempotency key mismatch", val |-> None,
              repo |-> repo, drawn |-> 0]
        ELSE IF o.payIdempotencyKey = idempotencyKey /\ o.payParams # <<>> /\ ~cached.err
        THEN [kind |-> "ok", msg |-> "", val |-> cached.val,
              repo |-> OrderPut(repo, [o EXCEPT !.channel = channel, !.updatedAt = t]),
              drawn |-> 0]
        ELSE [kind |-> "ok", msg |-> "", val |-> p, repo |-> OrderPut(repo, o2),
              drawn |-> 2]

\* OrderService.Pay: what it returns, the repository after, and the number
\* of random ids it drew.
PayCall(repo, orderID, channel, idempotencyKey, t, n) ==
    LET o == OrderGet(repo, orderID)
        cached == JsonUnmarshal(o.payParams)
        p == NewIntent(t, randomID(n + 1), randomID(n + 2))
        o2 == [o EXCEPT !.channel = channel, !.status = OrderPending,
                        !.payIdempotencyKey = idempotencyKey, !.updatedAt = t,
                        !.payParams = JsonMarshal(p)]
    IN  IF o = None
        THEN [kind |-> "NotFound", msg |-> "order", val |-> None, repo |-> repo, drawn |-> 0]
        ELSE IF o.status = OrderPaid
        THEN [kind |-> "Conflict", msg |-> "order already paid", val |-> None,
              repo |-> repo, drawn |-> 0]
        ELSE IF o.payIdempotencyKey # "" /\ o.payIdempotencyKey # idempotencyKey
        THEN [kind |-> "Conflict", msg |-> "idempotency key mismatch", val |-> None,
              repo |-> repo, drawn |-> 0]
        ELSE IF o.payIdempotencyKey = idempotencyKey /\ o.payParams # <<>> /\ ~cached.err
        THEN [kind |-> "ok", msg |-> "", val |-> cached.val, repo |-> repo, drawn |-> 0]
        ELSE [kind |-> "ok", msg |-> "", val |-> p, repo |-> OrderPut(repo, o2),
              drawn |-> 2]

\* Callback writing a record rebuilt without the payment key.
CallbackCall_ClearsKey(repo, orderID, status, t) ==
    LET o == OrderGet(repo, orderID)
        mapped == CASE status = "paid" -> OrderPaid
                    [] status = "pending" -> OrderPending
                    [] status = "canceled" -> OrderCanceled
                    [] status = "refunded" -> OrderRefunded
                    [] OTHER -> ""
    IN  IF o = None
        THEN [kind |-> "NotFound", msg |-> "order", repo |-> repo]
        ELSE IF mapped = ""
        THEN [kind |-> "BadRequest", msg |-> "invalid status", repo |-> repo]
        ELSE [kind |-> "ok", msg |-> "",
              repo |-> OrderPut(repo, [o EXCEPT !.status = mapped, !.updatedAt = t,
                                                !.payIdempotencyKey = ""])]

\* Callback ignoring an unrecognized status token: the order is written back
\* with a new updatedAt and no error is returned.
CallbackCall_IgnoresUnknown(repo, orderID, status, t) ==
    LET o == OrderGet(repo, orderID)
        mapped == CASE status = "paid" -> OrderPaid
                    [] status = "pending" -> OrderPending
                    [] status = "canceled" -> OrderCanceled
                    [] status = "refunded" -> OrderRefunded
                    [] OTHER -> o.status
    IN  IF o = None
        THEN [kind |-> "NotFound", msg |-> "order", repo |-> repo]
        ELSE [kind |-> "ok", msg |-> "",
              repo |-> OrderPut(repo, [o EXCEPT !.status = mapped, !.updatedAt = t])]

\* Callback with a forward-only guard: a paid order keeps its status.
CallbackCall_ForwardOnly(repo, orderID, status, t) ==
    LET o == OrderGet(repo, orderID)
        mapped == CASE status = "paid" -> OrderPaid
                    [] status = "pending" -> OrderPending
                    [] status = "canceled" -> OrderCanceled
                    [] status = "refunded" -> OrderRefunded
                    [] OTHER -> ""
    IN  IF o = None
        THEN [kind |-> "NotFound", msg |-> "order", repo |-> repo]
        ELSE IF mapped = ""
        THEN [kind |-> "BadRequest", msg |-> "invalid status", repo |-> repo]
        ELSE IF o.status = OrderPaid
        THEN [kind |-> "ok", msg |-> "", repo |-> repo]
        ELSE [kind |-> "ok", msg |-> "",
              repo |-> OrderPut(repo, [o EXCEPT !.status = mapped, !.updatedAt = t])]

\* OrderService.Callback
CallbackCall(repo, orderID, status, t) ==
    LET o == OrderGet(repo, orderID)
        mapped == CASE status = "paid" -> OrderPaid
                    [] status = "pending" -> OrderPending
                    [] status = "canceled" -> OrderCanceled
                    [] status = "refunded" -> OrderRefunded
                    [] OTHER -> ""
    IN  IF o = None
        THEN [kind |-> "NotFound", msg |-> "order", repo |-> repo]
        ELSE IF mapped = ""
        THEN [kind |-> "BadRequest", msg |-> "invalid status", repo |-> repo]
        ELSE [kind |-> "ok", msg |-> "",
              repo |-> OrderPut(repo, [o EXCEPT !.status = mapped, !.updatedAt = t])]

\* History: the first intent Pay returned for the order, and the key and the
\* intent of its latest successful Pay.
Returned(log, orderID) == IF orderID \in DOMAIN log THEN log[orderID] ELSE None

LogIntent(log, orderID, key, r) ==
    IF r.kind # "ok" THEN log
    ELSE [x \in (DOMAIN log) \cup {orderID} |->
            IF x # orderID THEN log[x]
            ELSE [first |-> IF orderID \in DOMAIN log THEN log[orderID].first ELSE r.val,
                  firstKey |-> IF orderID \in DOMAIN log THEN log[orderID].firstKey
                               ELSE key,
                  lastKey |-> key, last |-> r.val]]

OrderIdInputs == {<<"zz">>} \cup DOMAIN orderRepo

Create(req) ==
    /\ Cardinality(DOMAIN orderRepo) < MaxOrders
    /\ orderRepo' = OrderCreate(orderRepo, req, now, randomID(nextId + 1))
    /\ ret' = [op |-> "Create", orderId |-> randomID(nextId + 1), kind |-> "ok"]
    /\ nextId' = nextId + 1
    /\ UNCHANGED <<now, repoKind, taskRepo, tokenRepo, okCount, payLog, procs,
                   files, bgLog>>

\* The orders a range over the map of MemoryOrderRepo can yield: every stored
\* order once, in an order the runtime picks anew for each range statement.
RangeOrders(repo) ==
    {all \in [1..Cardinality(DOMAIN repo) -> {repo[id] : id \in DOMAIN repo}] :
        \A i, j \in DOMAIN all : i # j => all[i] # all[j]}

\* MemoryOrderRepo.List(page, pageSize), all being what the range yielded.
MemoryOrderList(all, page, pageSize) ==
    LET total == Len(all)
        start == IF (page - 1) * pageSize > total THEN total
                 ELSE (page - 1) * pageSize
        end == IF start + pageSize > total THEN total ELSE start + pageSize
    IN  [items |-> SubSeq(all, start + 1, end), total |-> total]

\* GET /api/orders: one List call. seen holds the pages returned so far by
\* the calls made with this page size.
List(page, pageSize, all) ==
    /\ LET r == MemoryOrderList(all, page, pageSize)
           seen == IF ret.op = "List" /\ ret.pageSize = pageSize THEN ret.seen ELSE <<>>
       IN  ret' = [op |-> "List", page |-> page, pageSize |-> pageSize,
                   items |-> r.items, total |-> r.total,
                   seen |-> [x \in (DOMAIN seen) \cup {page} |->
                                IF x = page THEN r.items ELSE seen[x]]]
    /\ UNCHANGED <<now, nextId, repoKind, taskRepo, orderRepo, tokenRepo, okCount,
                   payLog, procs, files, bgLog>>

\* createOrderReq bodies: known, unknown and empty task ids, amounts around 0,
\* item lists that are empty, valid, or hold a blank type or a zero quantity.
ReqTaskIds == {<<>>, <<"zz">>, <<"1">>}
ReqAmounts == {-1, 0, 100}
ReqChannels == {<<>>, <<"douyin">>}
ReqItems ==
    {<<>>,
     <<[type |-> <<"print">>, qty |-> 1]>>,
     <<[type |-> <<"print">>, qty |-> 1], [type |-> <<"frame">>, qty |-> 2]>>,
     <<[type |-> <<"print">>, qty |-> 1], [type |-> <<" ">>, qty |-> 1]>>,
     <<[type |-> <<"print">>, qty |-> 0]>>,
     <<[type |-> <<>>, qty |-> 1]>>}
CreateOrderReqs ==
    [taskId : ReqTaskIds, items : ReqItems, amountCents : ReqAmounts,
     channel : ReqChannels]

orDefault(s, d) == IF TrimSpace(s) = <<>> THEN d ELSE s

\* handleOrders without the loop over the items.
handleOrdersCall_NoItemCheck(tasks, repo, req, t, id) ==
    LET rej(msg) == [kind |-> "BadRequest", msg |-> msg, orderId |-> <<>>, repo |-> repo]
        o == [taskId |-> req.taskId, items |-> req.items,
              amountCents |-> req.amountCents,
              channel |-> orDefault(req.channel, <<"wechat">>)]
    IN  IF req.taskId = <<>> THEN rej("taskId required")
        ELSE IF TaskGet(tasks, req.taskId) = None THEN rej("task not found")
        ELSE IF req.amountCents <= 0 THEN rej("amountCents required")
        ELSE IF Len(req.items) = 0 THEN rej("items required")
        ELSE [kind |-> "ok", msg |-> "", orderId |-> id,
              repo |-> OrderCreate(repo, o, t, id)]

\* handleOrders, POST: the checks on the request, then OrderService.Create.
handleOrdersCall(tasks, repo, req, t, id) ==
    LET rej(msg) == [kind |-> "BadRequest", msg |-> msg, orderId |-> <<>>, repo |-> repo]
        o == [taskId |-> req.taskId, items |-> req.items,
              amountCents |-> req.amountCents,
              channel |-> orDefault(req.channel, <<"wechat">>)]
    IN  IF req.taskId = <<>> THEN rej("taskId required")
        ELSE IF TaskGet(tasks, req.taskId) = None THEN rej("task not found")
        ELSE IF req.amountCents <= 0 THEN rej("amountCents required")
        ELSE IF Len(req.items) = 0 THEN rej("items required")
        ELSE IF \E i \in 1..Len(req.items) :
                    TrimSpace(req.items[i].type) = <<>> \/ req.items[i].qty <= 0
        THEN rej("invalid items")
        ELSE [kind |-> "ok", msg |-> "", orderId |-> id,
              repo |-> OrderCreate(repo, o, t, id)]

handleOrders(req) ==
    /\ LET r == handleOrdersCall(taskRepo, orderRepo, req, now, randomID(nextId + 1))
       IN  /\ r.kind = "ok" => Cardinality(DOMAIN orderRepo) < MaxOrders
           /\ orderRepo' = r.repo
           /\ ret' = [op |-> "handleOrders", req |-> req, kind |-> r.kind,
                      msg |-> r.msg, orderId |-> r.orderId,
                      ordersBefore |-> orderRepo]
           /\ nextId' = IF r.kind = "ok" THEN nextId + 1 ELSE nextId
    /\ UNCHANGED <<now, repoKind, taskRepo, tokenRepo, okCount, payLog, procs,
                   files, bgLog>>

Pay(orderID, channel, idempotencyKey) ==
    /\ LET r == PayCall(orderRepo, orderID, channel, idempotencyKey, now, nextId)
       IN  /\ orderRepo' = r.repo
           /\ nextId' = nextId + r.drawn
           /\ ret' = [op |-> "Pay", orderId |-> orderID, channel |-> channel,
                      key |-> idempotencyKey,
                      pre |-> OrderGet(orderRepo, orderID),
                      prev |-> Returned(payLog, orderID),
                      issued |-> r.drawn > 0,
                      kind |-> r.kind, val |-> r.val]
           /\ payLog' = LogIntent(payLog, orderID, idempotencyKey, r)
    /\ UNCHANGED <<now, repoKind, taskRepo, tokenRepo, okCount, procs,
                   files, bgLog>>

Callback(orderID, status) ==
    /\ LET r == CallbackCall(orderRepo, orderID, status, now)
       IN  /\ orderRepo' = r.repo
           /\ ret' = [op |-> "Callback", orderId |-> orderID, status |-> status,
                      pre |-> OrderGet(orderRepo, orderID), kind |-> r.kind]
    /\ UNCHANGED <<now, nextId, repoKind, taskRepo, tokenRepo, okCount, payLog, procs,
                   files, bgLog>>

\* Pay step by step, for requests served concurrently. Lines 223-226: the
\* fields assigned on the order that Repo.Get returned.
PayAssign(o, channel, idempotencyKey, t) ==
    [o EXCEPT !.channel = channel, !.status = OrderPending,
              !.payIdempotencyKey = idempotencyKey, !.updatedAt = t]

\* Pay that does not cache the intent on the order.
PayCache_Skipped(o, p) == o

\* Lines 236-237: the intent cached on the order.
PayCache(o, p) == [o EXCEPT !.payParams = JsonMarshal(p)]

\* The order a Pay in flight works on: the in-memory repository returned the
\* stored pointer, the Postgres one a copy.
LocalOrder(p) ==
    IF repoKind = "memory" THEN OrderGet(orderRepo, procs[p].orderId) ELSE procs[p].o

\* Lines 207-226. A call that does not issue an intent returns here; one that
\* does has assigned channel, status, key and updatedAt on its order, which on
\* the in-memory repository is the stored order.
PayBegin(p, orderID, channel, idempotencyKey) ==
    /\ procs[p].pc = "idle"
    /\ LET r == PayCall(orderRepo, orderID, channel, idempotencyKey, now, nextId)
           o1 == PayAssign(OrderGet(orderRepo, orderID), channel, idempotencyKey, now)
       IN  IF r.drawn = 0
           THEN /\ ret' = [op |-> "Pay", orderId |-> orderID, channel |-> channel,
                           key |-> idempotencyKey,
                           pre |-> OrderGet(orderRepo, orderID),
                           prev |-> Returned(payLog, orderID),
                           issued |-> FALSE, kind |-> r.kind, val |-> r.val,
                           put |-> None]
                /\ payLog' = LogIntent(payLog, orderID, idempotencyKey, r)
                /\ UNCHANGED <<orderRepo, procs>>
           ELSE /\ procs' = [procs EXCEPT ![p] =
                                [pc |-> "payAssigned", orderId |-> orderID,
                                 channel |-> channel, key |-> idempotencyKey,
                                 pre |-> OrderGet(orderRepo, orderID), o |-> o1]]
                /\ orderRepo' = IF repoKind = "memory" THEN OrderPut(orderRepo, o1)
                                ELSE orderRepo
                /\ UNCHANGED <<ret, payLog>>
    /\ UNCHANGED <<now, nextId, repoKind, taskRepo, tokenRepo, okCount, files, bgLog>>

\* Lines 227-239: the intent is built, cached on the order, the order Put and
\* the intent returned.
PayFinish(p) ==
    /\ procs[p].pc = "payAssigned"
    /\ LET orderID == procs[p].orderId
           intent == NewIntent(now, randomID(nextId + 1), randomID(nextId + 2))
           o2 == PayCache(LocalOrder(p), intent)
       IN  /\ orderRepo' = OrderPut(orderRepo, o2)
           /\ ret' = [op |-> "Pay", orderId |-> orderID, channel |-> procs[p].channel,
                      key |-> procs[p].key, pre |-> procs[p].pre,
                      prev |-> Returned(payLog, orderID),
                      issued |-> TRUE, kind |-> "ok", val |-> intent, put |-> o2]
           /\ payLog' = LogIntent(payLog, orderID, procs[p].key,
                                  [kind |-> "ok", val |-> intent])
    /\ nextId' = nextId + 2
    /\ procs' = [procs EXCEPT ![p] = [pc |-> "idle"]]
    /\ UNCHANGED <<now, repoKind, taskRepo, tokenRepo, okCount, files, bgLog>>

\* server.New picks the repositories once, at process start.
InitWith(kinds, tasks, fs, n) ==
    /\ now = 1
    /\ nextId = n
    /\ repoKind \in kinds
    /\ taskRepo = tasks[repoKind]
    /\ orderRepo = <<>>
    /\ tokenRepo = <<>>
    /\ ret = [op |-> "none"]
    /\ okCount = <<>>
    /\ payLog = <<>>
    /\ procs = [p \in 1..MaxProcs |-> [pc |-> "idle"]]
    /\ files = fs
    /\ bgLog = <<>>

RepoKinds == {"memory", "postgres"}

Init == InitWith(RepoKinds, [k \in RepoKinds |-> <<>>], {}, 0)

\* CreateTask stores userID as given and never branches on it.
TaskUsers == {<<>>, <<"u1">>}

NextTask ==
    \/ Tick
    \/ \E u \in TaskUsers, c \in Colors, w \in CreateTaskWorlds \cup UndecodableWorlds,
          at \in 1..MaxClock :
            CreateTask(u, c, w, at)

SpecTask == Init /\ [][NextTask]_vars

\* The token lifecycle starts from the repository after three CreateTask calls:
\* a finished task of user u1, a finished anonymous task and a failed task.
WorldOk ==
    [idp |-> [err |-> FALSE, ok |-> TRUE, std |-> GoodPayload, hd |-> <<>>],
     baselineWriteErr |-> FALSE,
     bg |-> [err |-> FALSE, ok |-> TRUE, img |-> GoodPayload],
     variantWriteErr |-> FALSE]
WorldCutoutFails ==
    [WorldOk EXCEPT !.idp = [err |-> TRUE, ok |-> FALSE, std |-> <<>>, hd |-> <<>>]]

SeedTask(n, userID, w) ==
    CreateTaskResult(NewTask(randomID(n), userID, 1), "white", w, 1)

\* A CreateTask call that has stored its first record and is waiting for the
\* processing service: the stored status is processing.
SeedTaskRunning(n, userID) == NewTask(randomID(n), userID, 1)

SeedTasks(kind) ==
    TaskPut(kind,
        TaskPut(kind,
            TaskPut(kind,
                TaskPut(kind, <<>>, SeedTask(1, <<"u1">>, WorldOk)),
                SeedTask(2, <<>>, WorldOk)),
            SeedTask(3, <<"u2">>, WorldCutoutFails)),
        SeedTaskRunning(4, <<"u1">>))

SeedFiles ==
    TaskFiles(SeedTask(1, <<"u1">>, WorldOk)) \cup TaskFiles(SeedTask(2, <<>>, WorldOk))
        \cup TaskFiles(SeedTask(3, <<"u2">>, WorldCutoutFails))

\* The token repository in src/ is the Postgres one.
InitToken == InitWith({"postgres"}, [k \in RepoKinds |-> SeedTasks(k)], SeedFiles, 4)

NextToken ==
    \/ Tick
    \/ \E id \in TaskIdInputs, u \in Users, ttl \in TTLs : CreateToken(id, u, ttl)
    \/ \E k \in TokenInputs : UseToken(k)

SpecToken == InitToken /\ [][NextToken]_vars

\* Tokens are issued and then presented to the download request.
NextDownload ==
    \/ Tick
    \/ \E id \in TaskIdInputs, u \in Users, ttl \in TTLs : CreateToken(id, u, ttl)
    \/ \E k \in TokenInputs, statErr \in BOOLEAN : handleDownloadFile(k, statErr)

SpecDownload == InitToken /\ [][NextDownload]_vars

NextTokenConc ==
    \/ Tick
    \/ \E id \in TaskIdInputs, u \in Users, ttl \in TTLs : CreateToken(id, u, ttl)
    \/ \E p \in 1..MaxProcs, k \in TokenInputs : UseTokenGet(p, k)
    \/ \E p \in 1..MaxProcs : UseTokenFinish(p)

SpecTokenConc == InitToken /\ [][NextTokenConc]_vars

\* Extensions start from the repository and the assets directory after two
\* CreateTask calls: a finished task and one whose cutout failed.
SeedExtendTasks(kind) ==
    TaskPut(kind,
        TaskPut(kind, <<>>, SeedTask(1, <<"u1">>, WorldOk)),
        SeedTask(3, <<"u2">>, WorldCutoutFails))

SeedExtendFiles ==
    TaskFiles(SeedTask(1, <<"u1">>, WorldOk))
        \cup TaskFiles(SeedTask(3, <<"u2">>, WorldCutoutFails))

InitExtend ==
    InitWith(RepoKinds, [k \in RepoKinds |-> SeedExtendTasks(k)], SeedExtendFiles, 3)

NextExtend ==
    \/ Tick
    \/ \E id \in ExtTaskIds, c \in ExtColors, w \in BackgroundWorlds :
            GenerateBackground(id, c, w)
    \/ \E id \in DOMAIN taskRepo, c \in ExtColors, sz \in Sizes, w \in ExtendWorlds :
            GenerateLayout(id, c, sz, w)

SpecExtend == InitExtend /\ [][NextExtend]_vars

\* Concurrent extension requests over the Postgres repository.
InitExtendConc ==
    InitWith({"postgres"}, [k \in RepoKinds |-> SeedExtendTasks(k)], SeedExtendFiles, 3)

NextExtendConc ==
    \/ Tick
    \/ \E p \in 1..MaxProcs, id \in ExtTaskIds, c \in ExtColors :
            GenerateBackgroundGet(p, id, c)
    \/ \E p \in 1..MaxProcs, w \in BackgroundWorlds : GenerateBackgroundFinish(p, w)
    \/ \E p \in 1..MaxProcs : GenerateBackgroundReturn(p)

SpecExtendConc == InitExtendConc /\ [][NextExtendConc]_vars

\* Payment requests served concurrently, on either repository.
PayConcKeys == {"", "k1"}
PayConcStatusTokens == {"paid", "canceled"}

NextPayConc ==
    \/ \E req \in OrderReqs : Create(req)
    \/ \E p \in 1..MaxProcs, id \in OrderIdInputs, ch \in Channels, k \in PayConcKeys :
            PayBegin(p, id, ch, k)
    \/ \E p \in 1..MaxProcs : PayFinish(p)
    \/ \E id \in OrderIdInputs, st \in PayConcStatusTokens : Callback(id, st)

SpecPayConc == Init /\ [][NextPayConc]_vars

NextOrder ==
    \/ Tick
    \/ \E req \in OrderReqs : Create(req)
    \/ \E id \in OrderIdInputs, ch \in Channels, k \in Keys : Pay(id, ch, k)
    \/ \E id \in OrderIdInputs, st \in StatusTokens : Callback(id, st)

InitOrder == InitWith({"memory"}, [k \in RepoKinds |-> <<>>], {}, 0)

SpecOrder == InitOrder /\ [][NextOrder]_vars

\* ------------------------------------------------ local 6-inch sheet layout
Gap == 20
SheetInchesW == 6
SheetInchesH == 4
QualityDefault == 85
QualityLow == 70
LowQualityBelowKb == 200

\* Go integer division: the quotient is truncated toward zero.
GoDiv(a, b) ==
    LET abs(x) == IF x < 0 THEN -x ELSE x
        q == abs(a) \div abs(b)
    IN  IF (a < 0) = (b < 0) THEN q ELSE -q

\* The tile count along one axis computed without adding the gap to the sheet.
GridCount_NoGap(sheet, tile) ==
    LET n == GoDiv(sheet, tile + Gap)
    IN  IF n < 1 THEN 1 ELSE n

\* cols / rows: (sheet + gap) / (tile + gap), raised to 1 when it is below 1.
GridCount(sheet, tile) ==
    LET n == GoDiv(sheet + Gap, tile + Gap)
    IN  IF n < 1 THEN 1 ELSE n

\* generateLayout6Inch drawing the grid from the sheet's corner.
generateLayout6Inch_FromCorner(decodeOk, width, height, dpi, kb) ==
    LET sheetW == SheetInchesW * dpi
        sheetH == SheetInchesH * dpi
        none == [err |-> "", sheetW |-> sheetW, sheetH |-> sheetH, cols |-> 0,
                 rows |-> 0, startX |-> 0, startY |-> 0, quality |-> 0,
                 jpg |-> FALSE]
    IN  IF ~decodeOk THEN [none EXCEPT !.err = "decode"]
        ELSE IF sheetW <= 0 \/ sheetH <= 0 THEN [none EXCEPT !.err = "BadRequest: dpi"]
        ELSE [err |-> "", sheetW |-> sheetW, sheetH |-> sheetH,
              cols |-> GridCount(sheetW, width), rows |-> GridCount(sheetH, height),
              startX |-> 0, startY |-> 0,
              quality |-> IF kb > 0 /\ kb < LowQualityBelowKb
                          THEN QualityLow ELSE QualityDefault,
              jpg |-> TRUE]

\* The rectangles the drawing loop fills: one per row r and column c, with
\* corner (startX + c*(width+gap), startY + r*(height+gap)).
TileRects(out, width, height) ==
    {[x0 |-> out.startX + c * (width + Gap),
      y0 |-> out.startY + r * (height + Gap),
      x1 |-> out.startX + c * (width + Gap) + width,
      y1 |-> out.startY + r * (height + Gap) + height] :
        c \in 0..(out.cols - 1), r \in 0..(out.rows - 1)}

\* TaskService.generateLayout6Inch: the error it returns, or the grid it draws
\* on the dpi*6 x dpi*4 sheet and the JPEG quality it encodes with.
generateLayout6Inch(decodeOk, width, height, dpi, kb) ==
    LET sheetW == SheetInchesW * dpi
        sheetH == SheetInchesH * dpi
        cols == GridCount(sheetW, width)
        rows == GridCount(sheetH, height)
        totalW == cols * width + (cols - 1) * Gap
        totalH == rows * height + (rows - 1) * Gap
        none == [err |-> "", sheetW |-> sheetW, sheetH |-> sheetH, cols |-> 0,
                 rows |-> 0, startX |-> 0, startY |-> 0, quality |-> 0,
                 jpg |-> FALSE]
    IN  IF ~decodeOk THEN [none EXCEPT !.err = "decode"]
        ELSE IF sheetW <= 0 \/ sheetH <= 0 THEN [none EXCEPT !.err = "BadRequest: dpi"]
        ELSE [err |-> "", sheetW |-> sheetW, sheetH |-> sheetH, cols |-> cols,
              rows |-> rows, startX |-> GoDiv(sheetW - totalW, 2),
              startY |-> GoDiv(sheetH - totalH, 2),
              quality |-> IF kb > 0 /\ kb < LowQualityBelowKb
                          THEN QualityLow ELSE QualityDefault,
              jpg |-> TRUE]

\* Tile sizes around the points where the counts change on the 1800x1200 and
\* the 432x288 sheet, and resolutions with and without a sheet.
TileWidths == {1, 124, 125, 354, 585, 586, 890, 891, 1800, 1801, 2000}
TileHeights == {1, 134, 135, 472, 590, 591, 1200, 1201}
Resolutions == {-1, 0, 72, 300}
TargetKbs == {0, 100, 200}

Layout6Inch(decodeOk, width, height, dpi, kb) ==
    /\ ret' = [op |-> "generateLayout6Inch", decodeOk |-> decodeOk,
               width |-> width, height |-> height, dpi |-> dpi, kb |-> kb,
               out |-> generateLayout6Inch(decodeOk, width, height, dpi, kb)]
    /\ UNCHANGED <<now, nextId, repoKind, taskRepo, orderRepo, tokenRepo, okCount,
                   payLog, procs, files, bgLog>>

NextGrid ==
    \E decodeOk \in BOOLEAN, width \in TileWidths, height \in TileHeights,
       dpi \in Resolutions, kb \in TargetKbs :
        Layout6Inch(decodeOk, width, height, dpi, kb)

SpecGrid == Init /\ [][NextGrid]_vars

NextCreateSteps ==
    \/ Tick
    \/ \E p \in 1..MaxProcs, u \in TaskUsers, c \in Colors : CreateTaskStart(p, u, c)
    \/ \E p \in 1..MaxProcs, idp \in IDPhotoResults : CreateTaskIDPhotoStep(p, idp)
    \/ \E p \in 1..MaxProcs, e \in BOOLEAN : CreateTaskBaselineStep(p, e)
    \/ \E p \in 1..MaxProcs, bg \in AddBackgroundResults : CreateTaskRecolorStep(p, bg)
    \/ \E p \in 1..MaxProcs, e \in BOOLEAN : CreateTaskVariantStep(p, e)

SpecCreateSteps == Init /\ [][NextCreateSteps]_vars

\* The whole task pipeline on one task: CreateTask step by step, and
\* GenerateBackground / GenerateLayout requests arriving at any time.
PipelineColors == {"", "blue"}
PipelineSize == [width |-> 0, height |-> 0, dpi |-> 0, kb |-> 0]

NextPipeline ==
    \/ \E p \in 1..MaxProcs, c \in PipelineColors : CreateTaskStart(p, <<"u1">>, c)
    \/ \E p \in 1..MaxProcs, idp \in IDPhotoResults : CreateTaskIDPhotoStep(p, idp)
    \/ \E p \in 1..MaxProcs, e \in BOOLEAN : CreateTaskBaselineStep(p, e)
    \/ \E p \in 1..MaxProcs, bg \in AddBackgroundResults : CreateTaskRecolorStep(p, bg)
    \/ \E p \in 1..MaxProcs, e \in BOOLEAN : CreateTaskVariantStep(p, e)
    \/ \E id \in DOMAIN taskRepo, c \in ExtColors, w \in BackgroundWorlds :
            GenerateBackground(id, c, w)
    \/ \E id \in DOMAIN taskRepo, c \in ExtColors, w \in ExtendWorlds :
            GenerateLayout(id, c, PipelineSize, w)

SpecPipeline == Init /\ [][NextPipeline]_vars

\* Listing pages through the in-memory store after MaxListed Create calls.
RECURSIVE SeedOrders(_)
SeedOrders(n) ==
    IF n = 0 THEN <<>>
    ELSE OrderCreate(SeedOrders(n - 1), CHOOSE req \in OrderReqs : TRUE, 1, randomID(n))

InitList ==
    /\ now = 1
    /\ nextId = MaxListed
    /\ repoKind = "memory"
    /\ taskRepo = <<>>
    /\ orderRepo = SeedOrders(MaxListed)
    /\ tokenRepo = <<>>
    /\ ret = [op |-> "none"]
    /\ okCount = <<>>
    /\ payLog = <<>>
    /\ procs = [p \in 1..MaxProcs |-> [pc |-> "idle"]]
    /\ files = {}
    /\ bgLog = <<>>

NextList ==
    \E page \in 1..(MaxListed + 1), pageSize \in 1..MaxListed,
       all \in RangeOrders(orderRepo) :
        List(page, pageSize, all)

SpecList == InitList /\ [][NextList]_vars

\* Order requests arrive at a server that holds a finished and a failed task.
InitOrderReq ==
    InitWith(RepoKinds, [k \in RepoKinds |-> SeedExtendTasks(k)], SeedExtendFiles, 3)

NextOrderReq ==
    \/ Tick
    \/ \E req \in CreateOrderReqs : handleOrders(req)

SpecOrderReq == InitOrderReq /\ [][NextOrderReq]_vars

Next == NextTask \/ NextToken \/ NextOrder \/ NextExtend \/ NextOrderReq \/ NextGrid
          \/ NextCreateSteps \/ NextPipeline \/ NextPayConc \/ NextDownload
          \/ NextList

Spec == Init /\ [][Next]_vars

\* ------------------------------------------------------------------ claims
Failure == {"Conflict", "BadRequest"}

\* C1: over any sequence of UseToken calls on a token, at any clock values, at
\* most one call returns success, and every call made after a successful one
\* returns Conflict or BadRequest.
C1_MonotonicConsumption ==
    /\ \A k \in DOMAIN okCount : okCount[k] <= 1
    /\ (ret.op = "UseToken" /\ ret.afterOk) => ret.kind \in Failure

\* A UseToken call made on a token after one that succeeded.
C1_Witness ==
    /\ ret.op = "UseToken"
    /\ ret.afterOk
    /\ ret.kind = "Conflict"
    /\ OkCountOf(ret.token) = 1

\* C2: when two UseToken calls on the same active, unexpired token interleave
\* (both GetToken before either UpdateToken), at most one of them returns
\* success.
C2_OneSuccessWhenInterleaved ==
    \A k \in DOMAIN tokenRepo : OkCountOf(k) <= 1

\* A call that finds the token active and past expiresAt fails with BadRequest
\* and leaves the stored token expired.
ExpiryNow ==
    (/\ ret.op = "UseToken"
     /\ ret.pre # None
     /\ ret.pre.status = DownloadTokenActive
     /\ ret.at > ret.pre.expiresAt)
        => /\ ret.kind = "BadRequest"
           /\ tokenRepo[ret.token].status = DownloadTokenExpired

\* A call that finds the token expired fails.
ExpiredLater ==
    (/\ ret.op = "UseToken"
     /\ ret.pre # None
     /\ ret.pre.status = DownloadTokenExpired)
        => ret.kind \in Failure

\* No step takes a stored token out of expired.
ExpiredStays ==
    \A k \in DOMAIN tokenRepo :
        tokenRepo[k].status = DownloadTokenExpired
            => tokenRepo'[k].status = DownloadTokenExpired

\* C3: UseToken on an active token after expiresAt persists status expired and
\* returns BadRequest, on the first attempt too; an expired token stays
\* expired (never used or active again) and every later UseToken on it fails.
C3_ExpiryLaw == [](ExpiryNow /\ ExpiredLater) /\ [][ExpiredStays]_vars

\* The first redemption attempt on a token comes after expiresAt.
C3_Witness ==
    /\ ret.op = "UseToken"
    /\ ret.pre # None
    /\ ret.pre.status = DownloadTokenActive
    /\ ret.at > ret.pre.expiresAt
    /\ ~ret.afterOk
    /\ ret.kind = "BadRequest"
    /\ tokenRepo[ret.token].status = DownloadTokenExpired

Recognized == {"paid", "pending", "canceled", "refunded"}

\* C4: Pay called again with the same (orderId, idempotencyKey) as the latest
\* successful Pay, on an order that is not paid, returns the same payment
\* intent (appId, timeStamp, nonceStr, package, signType, paySign), whatever
\* Callback calls happened in between.
C4_PayIdempotent ==
    (/\ ret.op = "Pay"
     /\ ret.pre # None
     /\ ret.pre.status # OrderPaid
     /\ ret.prev # None
     /\ ret.prev.lastKey = ret.key)
        => /\ ret.kind = "ok"
           /\ ret.val = ret.prev.last

\* A second Pay with the same key, after a Callback moved the order to canceled.
C4_Witness ==
    /\ ret.op = "Pay"
    /\ ret.pre # None
    /\ ret.pre.status = OrderCanceled
    /\ ret.prev # None
    /\ ret.prev.lastKey = ret.key
    /\ ret.kind = "ok"

\* C5: Pay with a key different from the key recorded on the order returns
\* Conflict in every status the order can have, and leaves the stored order
\* unchanged.
C5_KeyMismatchConflict ==
    (/\ ret.op = "Pay"
     /\ ret.pre # None
     /\ ret.pre.payIdempotencyKey # ""
     /\ ret.key # ret.pre.payIdempotencyKey)
        => /\ ret.kind = "Conflict"
           /\ ~ret.issued
           /\ orderRepo[ret.orderId] = ret.pre

\* Pay with a second key on a refunded order that carries a key.
C5_Witness ==
    /\ ret.op = "Pay"
    /\ ret.pre # None
    /\ ret.pre.status = OrderRefunded
    /\ ret.pre.payIdempotencyKey = "k1"
    /\ ret.key = "k2"
    /\ ret.kind = "Conflict"

\* C6: Pay on a paid order returns Conflict for every key, the recorded one
\* included, issues no intent and leaves the stored order unchanged.
C6_PaidConflict ==
    (/\ ret.op = "Pay"
     /\ ret.pre # None
     /\ ret.pre.status = OrderPaid)
        => /\ ret.kind = "Conflict"
           /\ ~ret.issued
           /\ ret.val = None
           /\ orderRepo[ret.orderId] = ret.pre

\* Pay on a paid order with the key it carries, its intent cached.
C6_Witness ==
    /\ ret.op = "Pay"
    /\ ret.pre # None
    /\ ret.pre.status = OrderPaid
    /\ ret.pre.payIdempotencyKey = "k1"
    /\ ret.pre.payParams # <<>>
    /\ ret.key = "k1"
    /\ ret.kind = "Conflict"

\* C7: once an order carries a payment idempotency key, no Create, Pay or
\* Callback changes or clears it.
C7_KeySetOnce ==
    [][\A id \in DOMAIN orderRepo :
         orderRepo[id].payIdempotencyKey # ""
            => /\ id \in DOMAIN orderRepo'
               /\ orderRepo'[id].payIdempotencyKey = orderRepo[id].payIdempotencyKey]_vars

\* A Callback has succeeded on an order that carries a key.
C7_Witness ==
    /\ ret.op = "Callback"
    /\ ret.kind = "ok"
    /\ ret.pre # None
    /\ ret.pre.payIdempotencyKey = "k1"
    /\ orderRepo[ret.orderId].payIdempotencyKey = "k1"
    /\ orderRepo[ret.orderId].status # ret.pre.status

\* C8: Callback on a stored order with a status token outside {paid, pending,
\* canceled, refunded} returns BadRequest and leaves the stored order, its
\* status and updatedAt included, as it was.
C8_UnknownStatusNoMutation ==
    (/\ ret.op = "Callback"
     /\ ret.pre # None
     /\ ret.status \notin Recognized)
        => /\ ret.kind = "BadRequest"
           /\ orderRepo[ret.orderId] = ret.pre

\* An unrecognized token arrives later than the order's last update.
C8_Witness ==
    /\ ret.op = "Callback"
    /\ ret.pre # None
    /\ ret.status = "PAID"
    /\ ret.kind = "BadRequest"
    /\ now > ret.pre.updatedAt

\* C9: Callback with a recognized status token sets the order's status to the
\* mapped status from any prior status, a paid order included.
C9_CallbackUnconditional ==
    (/\ ret.op = "Callback"
     /\ ret.pre # None
     /\ ret.status \in Recognized)
        => /\ ret.kind = "ok"
           /\ orderRepo[ret.orderId].status = ret.status

\* A paid order is moved back to pending.
C9_Witness ==
    /\ ret.op = "Callback"
    /\ ret.pre # None
    /\ ret.pre.status = OrderPaid
    /\ ret.status = "pending"
    /\ orderRepo[ret.orderId].status = OrderPending

C11_FailureIsAStatus ==
    ret.op = "CreateTask"
        => /\ ret.kind = "ok"
           /\ ret.val.status \in {StatusDone, StatusFailed}
           /\ (ret.val.status = StatusFailed => ret.val.errorMsg # <<>>)
           /\ (ret.val.status = StatusDone => ret.val.errorMsg = <<>>)
           /\ TaskGet(taskRepo, ret.val.id) # None
           /\ TaskGet(taskRepo, ret.val.id).status = ret.val.status
           /\ TaskGet(taskRepo, ret.val.id).errorMsg = ret.val.errorMsg

\* The last step of the pipeline, the variant write, has failed: the Task is
\* failed after its baseline was written.
C11_Witness ==
    /\ ret.op = "CreateTask"
    /\ ret.val.status = StatusFailed
    /\ ret.val.errorMsg = <<"write image error">>
    /\ ret.val.baselineUrl # <<>>
    /\ taskRepo[ret.val.id].status = StatusFailed

\* C12: GenerateBackground called again with the same (taskId, color) after a
\* call that succeeded invokes no recolor operation and no asset write, leaves
\* the stored task unchanged and returns the reference the first call returned.
C12_BackgroundIdempotent ==
    (ret.op = "GenerateBackground" /\ ret.prev # None)
        => /\ ret.kind = "ok"
           /\ ret.val = ret.prev
           /\ ret.algoCalls = 0
           /\ ret.writes = 0
           /\ TaskGet(taskRepo, ret.taskId) = ret.pre

\* A second call for a color that the first call, not CreateTask, rendered.
C12_Witness ==
    /\ ret.op = "GenerateBackground"
    /\ ret.color = "blue"
    /\ ret.prev # None
    /\ ret.kind = "ok"
    /\ ret.val = ret.prev
    /\ ret.algoCalls = 0
    /\ repoKind = "postgres"

\* C13: in the persisted Task record an entry of processedUrls or layoutUrls,
\* once present, is present in every later state, also when GenerateBackground
\* calls for different colors interleave: every write leaves in the record
\* all the entries it held just before the write.
C13_EntriesNeverRemoved ==
    (ret.op \in {"GenerateBackground", "GenerateLayout"} /\ ret.pre # None)
        => /\ DOMAIN ret.pre.processedUrls
                \subseteq DOMAIN TaskGet(taskRepo, ret.taskId).processedUrls
           /\ DOMAIN ret.pre.layoutUrls
                \subseteq DOMAIN TaskGet(taskRepo, ret.taskId).layoutUrls

\* C14: after GenerateLayout succeeds for a color that was not yet rendered,
\* the persisted Task record holds processedUrls[color] and layoutUrls["6inch"]
\* equal to the returned reference, on either repository.
C14_LayoutPersisted ==
    (/\ ret.op = "GenerateLayout"
     /\ ret.kind = "ok"
     /\ ret.val # <<>>
     /\ ret.pre # None
     /\ ret.color \notin DOMAIN ret.pre.processedUrls)
        => /\ MapGet(TaskGet(taskRepo, ret.taskId).processedUrls, ret.color) # <<>>
           /\ MapGet(TaskGet(taskRepo, ret.taskId).layoutUrls, "6inch") = ret.val

\* C15: once the task read by GenerateLayout holds a non-empty
\* layoutUrls["6inch"], GenerateLayout returns that reference for every color
\* and every sheet argument, without a call to the processing service, an
\* asset write or a change to the stored task.
C15_LayoutIdempotent ==
    (/\ ret.op = "GenerateLayout"
     /\ ret.pre # None
     /\ MapGet(ret.pre.layoutUrls, "6inch") # <<>>)
        => /\ ret.kind = "ok"
           /\ ret.val = ret.pre.layoutUrls["6inch"]
           /\ ret.algoCalls = 0
           /\ ret.writes = 0
           /\ TaskGet(taskRepo, ret.taskId) = ret.pre

\* A later call for a color that was never rendered, with other sheet
\* arguments, on a task that has its layout.
C15_Witness ==
    /\ ret.op = "GenerateLayout"
    /\ ret.pre # None
    /\ MapGet(ret.pre.layoutUrls, "6inch") # <<>>
    /\ ret.color \notin DOMAIN ret.pre.processedUrls
    /\ ret.size.dpi = 300
    /\ ret.kind = "ok"

\* C16: CreateToken stores a token only for an existing task in done status:
\* a blank taskId or userId is answered BadRequest, an absent task NotFound, a
\* task in queued, processing or failed status BadRequest, and none of these
\* calls writes a token record.
C16_TokenOnlyForDoneTask ==
    /\ \A k \in DOMAIN tokenRepo :
          /\ TaskGet(taskRepo, tokenRepo[k].taskId) # None
          /\ TaskGet(taskRepo, tokenRepo[k].taskId).status = StatusDone
    /\ ret.op = "CreateToken" =>
          LET task == TaskGet(taskRepo, ret.taskId)
              blank == TrimSpace(ret.taskId) = <<>> \/ TrimSpace(ret.userId) = <<>>
              rejected == /\ ret.val = None
                          /\ tokenRepo = ret.tokensBefore
          IN  /\ blank => (ret.kind = "BadRequest" /\ rejected)
              /\ (~blank /\ task = None) => (ret.kind = "NotFound" /\ rejected)
              /\ (~blank /\ task # None
                    /\ task.status \in {StatusQueued, StatusProcessing, StatusFailed})
                    => (ret.kind = "BadRequest" /\ rejected)
              /\ ret.kind = "ok"
                    => /\ task # None
                       /\ task.status = StatusDone
                       /\ tokenRepo = PutToken(ret.tokensBefore, ret.val)

C16_Witness ==
    /\ ret.op = "CreateToken"
    /\ TrimSpace(ret.userId) # <<>>
    /\ TaskGet(taskRepo, ret.taskId) # None
    /\ TaskGet(taskRepo, ret.taskId).status = StatusProcessing
    /\ ret.kind = "BadRequest"
    /\ ret.msg = "task not ready"
    /\ tokenRepo = <<>>

\* C17: when the task has an owner, CreateToken issues a token to that owner
\* only: a requester whose identifier differs from the non-blank owner of the
\* task (identifiers compared without surrounding whitespace, as the code
\* compares them) is answered BadRequest and no token is written; a requester
\* other than the owner gets a token only when the task's userId is blank.
C17_TokenOnlyForOwner ==
    /\ \A k \in DOMAIN tokenRepo :
          LET task == TaskGet(taskRepo, tokenRepo[k].taskId)
          IN  task # None
                => \/ TrimSpace(task.userId) = <<>>
                   \/ TrimSpace(task.userId) = TrimSpace(tokenRepo[k].userId)
    /\ ret.op = "CreateToken" =>
          LET task == TaskGet(taskRepo, ret.taskId)
          IN  /\ (/\ task # None
                   /\ TrimSpace(task.userId) # <<>>
                   /\ TrimSpace(task.userId) # TrimSpace(ret.userId))
                    => /\ ret.kind = "BadRequest"
                       /\ ret.val = None
                       /\ tokenRepo = ret.tokensBefore
              /\ (/\ ret.kind = "ok"
                   /\ task.userId # ret.userId)
                    => \/ TrimSpace(task.userId) = <<>>
                       \/ TrimSpace(task.userId) = TrimSpace(ret.userId)

C17_Witness ==
    /\ ret.op = "CreateToken"
    /\ ret.userId = <<"u2">>
    /\ TaskGet(taskRepo, ret.taskId) # None
    /\ TaskGet(taskRepo, ret.taskId).status = StatusDone
    /\ TaskGet(taskRepo, ret.taskId).userId = <<"u1">>
    /\ ret.kind = "BadRequest"
    /\ ret.msg = "task not owned"
    /\ tokenRepo = <<>>

\* C18: an order is stored, under a fresh id and in status created, only when
\* the task it names exists, its amount is positive and every item has a
\* non-empty type and a positive quantity; a request that breaks one of these
\* is rejected and writes no order.
C18_OrderValidated ==
    /\ \A id \in DOMAIN orderRepo :
          LET o == orderRepo[id]
          IN  /\ o.orderId = id
              /\ TaskGet(taskRepo, o.taskId) # None
              /\ o.amountCents > 0
              /\ \A i \in 1..Len(o.items) :
                    o.items[i].type # <<>> /\ o.items[i].qty > 0
    /\ ret.op = "handleOrders" =>
          LET valid == /\ TaskGet(taskRepo, ret.req.taskId) # None
                       /\ ret.req.amountCents > 0
                       /\ \A i \in 1..Len(ret.req.items) :
                             /\ ret.req.items[i].type # <<>>
                             /\ ret.req.items[i].qty > 0
          IN  /\ ~valid => (ret.kind = "BadRequest" /\ orderRepo = ret.ordersBefore)
              /\ ret.kind # "ok" => orderRepo = ret.ordersBefore
              /\ ret.kind = "ok"
                    => /\ valid
                       /\ ret.orderId \notin DOMAIN ret.ordersBefore
                       /\ DOMAIN orderRepo = DOMAIN ret.ordersBefore \cup {ret.orderId}
                       /\ \A id \in DOMAIN ret.ordersBefore :
                             orderRepo[id] = ret.ordersBefore[id]
                       /\ orderRepo[ret.orderId].status = OrderCreated

C18_Witness ==
    /\ ret.op = "handleOrders"
    /\ TaskGet(taskRepo, ret.req.taskId) # None
    /\ ret.req.amountCents > 0
    /\ Len(ret.req.items) = 2
    /\ ret.req.items[2].type = <<" ">>
    /\ ret.kind = "BadRequest"
    /\ ret.msg = "invalid items"
    /\ orderRepo = <<>>

\* C19: when no positive number of tiles fits the sheet along some axis (the
\* tile is wider than 6*dpi or higher than 4*dpi), layout generation returns an
\* error and renders no sheet.
C19_NoFitIsAnError ==
    (/\ ret.op = "generateLayout6Inch"
     /\ \/ ret.width > SheetInchesW * ret.dpi
        \/ ret.height > SheetInchesH * ret.dpi)
        => /\ ret.out.err # ""
           /\ ~ret.out.jpg

\* C20: on the 6*dpi x 4*dpi sheet with the 20px gap and a tile that fits, the
\* column count (row count) is the largest n >= 1 with
\* n*(tile+gap) - gap <= sheet width (height); at dpi 300 a 354x472 tile gets
\* an 1800x1200 sheet and a grid of at least one tile.
C20_GridIsLargestFit ==
    (/\ ret.op = "generateLayout6Inch"
     /\ ret.decodeOk
     /\ ret.dpi > 0
     /\ ret.width > 0 /\ ret.width <= SheetInchesW * ret.dpi
     /\ ret.height > 0 /\ ret.height <= SheetInchesH * ret.dpi)
        => LET o == ret.out
           IN  /\ o.err = "" /\ o.jpg
               /\ o.sheetW = 6 * ret.dpi /\ o.sheetH = 4 * ret.dpi
               /\ o.cols >= 1
               /\ o.cols * (ret.width + 20) - 20 <= o.sheetW
               /\ (o.cols + 1) * (ret.width + 20) - 20 > o.sheetW
               /\ o.rows >= 1
               /\ o.rows * (ret.height + 20) - 20 <= o.sheetH
               /\ (o.rows + 1) * (ret.height + 20) - 20 > o.sheetH
               /\ (ret.dpi = 300 /\ ret.width = 354 /\ ret.height = 472)
                    => /\ o.sheetW = 1800 /\ o.sheetH = 1200
                       /\ o.cols = 4 /\ o.rows = 2

C20_Witness ==
    /\ ret.op = "generateLayout6Inch"
    /\ ret.decodeOk
    /\ ret.dpi = 300 /\ ret.width = 890 /\ ret.height = 472
    /\ ret.out.cols = 2 /\ ret.out.rows = 2
    /\ ret.out.jpg

\* C21: both repositories keep the Task contract: Get(t.ID) after Put(t)
\* returns a record equal to t in status, errorMsg, baselineUrl, processedUrls
\* and layoutUrls, here for the Task that CreateTask put last and returned.
C21_GetReturnsWhatWasPut ==
    (ret.op = "CreateTask" /\ ret.val.id \in DOMAIN taskRepo)
        => LET t == ret.val
               got == TaskGet(taskRepo, t.id)
           IN  /\ got.status = t.status
               /\ got.errorMsg = t.errorMsg
               /\ got.baselineUrl = t.baselineUrl
               /\ got.processedUrls = t.processedUrls
               /\ got.layoutUrls = t.layoutUrls

\* C22: during CreateTask the stored record follows every completed step:
\* once the baseline asset is written and before the recolor call is issued,
\* the persisted record carries baselineUrl and an updatedAt refreshed at
\* that step.
C22_BaselinePersistedBeforeRecolor ==
    \A p \in 1..MaxProcs :
        procs[p].pc = "recolor"
            => LET stored == TaskGet(taskRepo, procs[p].t.id)
               IN  /\ stored # None
                   /\ stored.baselineUrl = WriteFileURL(procs[p].t.id, "baseline.png")
                   /\ stored.updatedAt = procs[p].baselineAt

\* C29: within CreateTask, once a step has failed and the status is failed, no
\* later step runs for that task: a request with a step still to run holds a
\* Task in status processing, and a returned failed Task has made exactly the
\* calls up to the failing one (no recolor call after a cutout failure, no
\* variant write after a baseline failure) and left no file past it.
C29_FailureShortCircuits ==
    /\ \A p \in 1..MaxProcs :
          procs[p].pc \in {"idphoto", "baseline", "recolor", "variant"}
              => /\ procs[p].t.status = StatusProcessing
                 /\ procs[p].t.errorMsg = <<>>
    /\ (ret.op = "CreateTask" /\ ret.val.status = StatusFailed)
          => LET msg == Head(ret.val.errorMsg)
                 mine == {f \in files : f[1] = ret.val.id}
                 baseline == <<ret.val.id, <<"baseline.png">>>>
             IN  CASE msg \in {"algo idphoto error: ", "algo idphoto resp not ok",
                               "decode baseline error: "}
                        -> ret.calls = <<"IDPhoto">> /\ mine = {}
                   [] msg = "write baseline error"
                        -> ret.calls = <<"IDPhoto", "WriteFile">> /\ mine = {}
                   [] msg \in {"algo add_background error: ",
                               "algo add_background resp not ok",
                               "decode image error: "}
                        -> /\ ret.calls = <<"IDPhoto", "WriteFile", "AddBackgroundBase64">>
                           /\ mine = {baseline}
                   [] msg = "write image error"
                        -> /\ ret.calls = <<"IDPhoto", "WriteFile", "AddBackgroundBase64",
                                            "Write">>
                           /\ mine = {baseline}

C29_Witness ==
    /\ ret.op = "CreateTask"
    /\ ret.val.status = StatusFailed
    /\ Head(ret.val.errorMsg) = "algo idphoto resp not ok"
    /\ ret.calls = <<"IDPhoto">>
    /\ \A p \in 1..MaxProcs : procs[p].pc = "idle"
    /\ files = {}

\* C30: baselineUrl is set at most once: once the persisted record of a task
\* holds a non-empty baselineUrl, no step of CreateTask, GenerateBackground or
\* GenerateLayout changes or clears it.
C30_BaselineSetOnce ==
    [][\A id \in DOMAIN taskRepo :
          taskRepo[id].baselineUrl # <<>>
              => /\ id \in DOMAIN taskRepo'
                 /\ taskRepo'[id].baselineUrl = taskRepo[id].baselineUrl]_vars

C30_Witness ==
    /\ ret.op = "GenerateLayout"
    /\ ret.kind = "ok"
    /\ ret.val # <<>>
    /\ ret.pre.baselineUrl # <<>>
    /\ ret.pre.status = StatusDone
    /\ TaskGet(taskRepo, ret.taskId).layoutUrls # <<>>
    /\ TaskGet(taskRepo, ret.taskId).baselineUrl = ret.pre.baselineUrl

\* C23: two GenerateBackground calls for the same task and color can both
\* find the color missing; then the recolor operation is invoked by each of
\* them, each writes processedUrls[color], and the stored record is the one
\* written by the call that finished last.
C23_BothRenderLastWins ==
    \A p, q \in 1..MaxProcs :
        (/\ p # q
         /\ procs[p].pc = "bgDone" /\ procs[q].pc = "bgDone"
         /\ procs[p].taskId = procs[q].taskId
         /\ procs[p].color = procs[q].color
         /\ procs[p].kind = "ok" /\ procs[q].kind = "ok"
         /\ ret.op = "GenerateBackground" /\ ret.proc = q)
            => /\ MapGet(procs[p].t.processedUrls, procs[p].color) = <<>>
               /\ MapGet(procs[q].t.processedUrls, procs[q].color) = <<>>
               /\ procs[p].algoCalls = 1 /\ procs[q].algoCalls = 1
               /\ procs[p].writes = 1 /\ procs[q].writes = 1
               /\ MapGet(procs[p].put.processedUrls, procs[p].color) # <<>>
               /\ TaskGet(taskRepo, procs[q].taskId) = procs[q].put

C23_Witness ==
    /\ procs[1].pc = "bgDone" /\ procs[2].pc = "bgDone"
    /\ procs[1].taskId = procs[2].taskId
    /\ procs[1].color = "blue" /\ procs[2].color = "blue"
    /\ procs[1].kind = "ok" /\ procs[2].kind = "ok"
    /\ procs[1].algoCalls + procs[2].algoCalls = 2
    /\ ret.op = "GenerateBackground" /\ ret.proc = 2
    /\ procs[1].put.updatedAt < procs[2].put.updatedAt
    /\ TaskGet(taskRepo, procs[2].taskId) = procs[2].put
    /\ TaskGet(taskRepo, procs[2].taskId) # procs[1].put

C25_InactiveIsConflict ==
    (/\ ret.op = "UseToken"
     /\ ret.pre # None
     /\ ret.pre.status # DownloadTokenActive)
        => /\ ret.kind = "Conflict"
           /\ ret.val = None
           /\ GetToken(tokenRepo, ret.token) = ret.pre

C25_Witness ==
    /\ ret.op = "UseToken"
    /\ ret.pre # None
    /\ ret.pre.status = DownloadTokenUsed
    /\ ret.at > ret.pre.expiresAt
    /\ ret.kind = "Conflict"
    /\ GetToken(tokenRepo, ret.token).usedAt = ret.pre.usedAt

\* C26: UseToken on an active token at a clock value not after expiresAt,
\* expiresAt itself included, succeeds: the stored token becomes used with
\* usedAt = now and the record returned carries the task id and user id the
\* token was created with.
C26_UseBeforeOrAtExpiry ==
    (/\ ret.op = "UseToken"
     /\ ret.pre # None
     /\ ret.pre.status = DownloadTokenActive
     /\ ret.at <= ret.pre.expiresAt)
        => /\ ret.kind = "ok"
           /\ ret.val = [ret.pre EXCEPT !.status = DownloadTokenUsed, !.usedAt = ret.at]
           /\ ret.val.taskId = ret.pre.taskId
           /\ ret.val.userId = ret.pre.userId
           /\ GetToken(tokenRepo, ret.token) = ret.val

C26_Witness ==
    /\ ret.op = "UseToken"
    /\ ret.pre # None
    /\ ret.pre.status = DownloadTokenActive
    /\ ret.at = ret.pre.expiresAt
    /\ ret.at > ret.pre.createdAt
    /\ ret.kind = "ok"
    /\ GetToken(tokenRepo, ret.token).status = DownloadTokenUsed
    /\ GetToken(tokenRepo, ret.token).usedAt = ret.at

\* C27: a token issued by CreateToken has status active, createdAt = now and
\* expiresAt = now + ttlSeconds, where a ttlSeconds <= 0 counts as 600, and
\* its expiresAt is strictly after its createdAt.
C27_ExpiryAfterCreation ==
    (ret.op = "CreateToken" /\ ret.kind = "ok")
        => LET eff == IF NonPositive(ret.ttl) THEN Seconds(0, DefaultTTL) ELSE ret.ttl
           IN  /\ ret.val.status = DownloadTokenActive
               /\ ret.val.createdAt = ret.at
               /\ Seconds(0, ret.val.expiresAt - ret.at) = eff
               /\ ret.val.expiresAt > ret.val.createdAt

\* C28: GenerateBackground returns NotFound for a task that does not exist,
\* and on every failing path (baseline file missing, transport error, answer
\* not ok, undecodable image, asset write error) it returns an error and
\* leaves the stored task as it was: no processedUrls entry added, updatedAt
\* not modified.
C28_FailureLeavesTaskUnchanged ==
    ret.op = "GenerateBackground"
        => /\ ret.pre = None => ret.kind = "NotFound"
           /\ ret.kind # "ok"
                => /\ ret.val = <<>>
                   /\ TaskGet(taskRepo, ret.taskId) = ret.pre

C28_Witness ==
    /\ ret.op = "GenerateBackground"
    /\ ret.pre # None
    /\ ret.kind = "Error"
    /\ ret.algoCalls = 1
    /\ ret.writes = 1
    /\ MapGet(ret.pre.processedUrls, ret.color) = <<>>
    /\ TaskGet(taskRepo, ret.taskId).processedUrls = ret.pre.processedUrls
    /\ TaskGet(taskRepo, ret.taskId).updatedAt = ret.pre.updatedAt
    /\ now > ret.pre.updatedAt

\* C31: in CreateTask a transport error and an answer that is not OK of the
\* same external operation both leave the stored task failed, with different
\* errorMsg values: the stored message alone tells which of the two happened,
\* for the cutout call and for the recolor call.
RecolorReached(w) ==
    LET rgbaB64 == IF w.idp.std = <<>> THEN w.idp.hd ELSE w.idp.std
    IN  ~w.idp.err /\ w.idp.ok /\ ~DecodeBase64(rgbaB64).err /\ ~w.baselineWriteErr

C31_FailureKindsDistinguishable ==
    ret.op = "CreateTask"
        => LET st == TaskGet(taskRepo, ret.val.id)
               w == ret.world
               label == IF st.errorMsg = <<>> THEN "" ELSE Head(st.errorMsg)
           IN  /\ (w.idp.err \/ ~w.idp.ok) => st.status = StatusFailed
               /\ (RecolorReached(w) /\ (w.bg.err \/ ~w.bg.ok))
                    => st.status = StatusFailed
               /\ label = "algo idphoto error: " <=> w.idp.err
               /\ label = "algo idphoto resp not ok" <=> (~w.idp.err /\ ~w.idp.ok)
               /\ label = "algo add_background error: "
                    <=> (RecolorReached(w) /\ w.bg.err)
               /\ label = "algo add_background resp not ok"
                    <=> (RecolorReached(w) /\ ~w.bg.err /\ ~w.bg.ok)

C31_Witness ==
    /\ ret.op = "CreateTask"
    /\ RecolorReached(ret.world)
    /\ ~ret.world.bg.err
    /\ ~ret.world.bg.ok
    /\ TaskGet(taskRepo, ret.val.id).status = StatusFailed
    /\ TaskGet(taskRepo, ret.val.id).errorMsg = <<"algo add_background resp not ok">>

\* C32: when the baseline payload or the variant payload does not decode, the
\* errorMsg stored on the task is the fixed label followed by the first 32
\* characters of that payload at most, whatever the payload's length.
IsPrefixOf(a, b) == Len(a) <= Len(b) /\ a = SubSeq(b, 1, Len(a))

C32_DiagnosticIsTruncated ==
    ret.op = "CreateTask"
        => LET st == TaskGet(taskRepo, ret.val.id)
               w == ret.world
               rgbaB64 == IF w.idp.std = <<>> THEN w.idp.hd ELSE w.idp.std
               baselineBad == ~w.idp.err /\ w.idp.ok /\ DecodeBase64(rgbaB64).err
               variantBad == /\ RecolorReached(w) /\ ~w.bg.err /\ w.bg.ok
                             /\ DecodeBase64(w.bg.img).err
               payload == IF baselineBad THEN rgbaB64 ELSE w.bg.img
           IN  (baselineBad \/ variantBad)
                 => /\ st.status = StatusFailed
                    /\ Head(st.errorMsg) = (IF baselineBad THEN "decode baseline error: "
                                            ELSE "decode image error: ")
                    /\ Len(Tail(st.errorMsg)) <= PrefixLen
                    /\ IsPrefixOf(Tail(st.errorMsg), payload)
                    /\ Len(payload) <= PrefixLen => Tail(st.errorMsg) = payload

C32_Witness ==
    /\ ret.op = "CreateTask"
    /\ RecolorReached(ret.world)
    /\ DecodeBase64(ret.world.bg.img).err
    /\ Len(ret.world.bg.img) > PrefixLen
    /\ Len(TaskGet(taskRepo, ret.val.id).errorMsg) = 1 + PrefixLen

\* C33: the layout grid is centered in the sheet: when the grid fits, the
\* margin before the first tile and the margin after the last tile are both
\* non-negative and differ by one pixel at most, in each axis, and every tile
\* rectangle lies inside the sheet.
GridFits ==
    /\ ret.op = "generateLayout6Inch"
    /\ ret.out.jpg
    /\ ret.out.cols * ret.width + (ret.out.cols - 1) * Gap <= ret.out.sheetW
    /\ ret.out.rows * ret.height + (ret.out.rows - 1) * Gap <= ret.out.sheetH

C33_GridIsCentered ==
    GridFits
        => LET o == ret.out
               before == [x |-> o.startX, y |-> o.startY]
               after == [x |-> o.sheetW - (o.startX + o.cols * ret.width
                                              + (o.cols - 1) * Gap),
                         y |-> o.sheetH - (o.startY + o.rows * ret.height
                                              + (o.rows - 1) * Gap)]
           IN  /\ \A a \in {"x", "y"} :
                    /\ before[a] >= 0
                    /\ after[a] >= 0
                    /\ after[a] - before[a] \in {0, 1}
               /\ \A t \in TileRects(o, ret.width, ret.height) :
                    /\ 0 <= t.x0 /\ t.x0 < t.x1 /\ t.x1 <= o.sheetW
                    /\ 0 <= t.y0 /\ t.y0 < t.y1 /\ t.y1 <= o.sheetH

C33_Witness ==
    /\ GridFits
    /\ ret.out.cols = 4
    /\ ret.out.rows = 2
    /\ ret.out.startX = 162
    /\ ret.out.sheetW - (ret.out.startX + 4 * ret.width + 3 * Gap) = 162
    /\ Cardinality(TileRects(ret.out, ret.width, ret.height)) = 8

\* C34: whenever GenerateLayout returns a nil error, the reference it returns
\* is not empty and equals the persisted layoutUrls["6inch"]; an answer of the
\* layout service that is not OK, and an empty result of the nested
\* GenerateBackground, are errors.
C34_NilErrorMeansReference ==
    (ret.op = "GenerateLayout" /\ ret.kind = "ok")
        => /\ ret.val # <<>>
           /\ MapGet(TaskGet(taskRepo, ret.taskId).layoutUrls, "6inch") = ret.val

C36_ReplayChangesNothing ==
    (/\ ret.op = "Pay"
     /\ ret.pre # None
     /\ ret.pre.status # OrderPaid
     /\ ret.pre.payIdempotencyKey = ret.key
     /\ ret.pre.payParams # <<>>)
        => /\ ret.kind = "ok"
           /\ ~ret.issued
           /\ ret.val = JsonUnmarshal(ret.pre.payParams).val
           /\ OrderGet(orderRepo, ret.orderId) = ret.pre

C36_Witness ==
    /\ ret.op = "Pay"
    /\ ret.pre # None
    /\ ret.pre.status \in {OrderCanceled, OrderRefunded}
    /\ ret.pre.payIdempotencyKey = ret.key
    /\ ret.pre.payParams # <<>>
    /\ ret.channel # ret.pre.channel
    /\ now > ret.pre.updatedAt
    /\ ret.kind = "ok"
    /\ OrderGet(orderRepo, ret.orderId).status = ret.pre.status
    /\ OrderGet(orderRepo, ret.orderId).channel = ret.pre.channel
    /\ OrderGet(orderRepo, ret.orderId).updatedAt = ret.pre.updatedAt

\* C37: GenerateBackground and GenerateLayout never change a task's status or
\* errorMsg, whatever the status (failed and processing included): a step of
\* either leaves every stored task as it was except that processedUrls and
\* layoutUrls may have gained entries and updatedAt may be later.
ExtensionStep ==
    /\ ret' # ret
    /\ ret'.op \in {"GenerateBackground", "GenerateLayout"}

C38_TokenSpentOnFailedDownload ==
    ret.op = "handleDownloadFile"
        => /\ (/\ ret.pre # None
                /\ ret.pre.status = DownloadTokenActive
                /\ ret.at <= ret.pre.expiresAt)
                => /\ ret.redeemed
                   /\ GetToken(tokenRepo, ret.token).status = DownloadTokenUsed
                   /\ GetToken(tokenRepo, ret.token).usedAt = ret.at
           /\ ret.redeemed => ret.pre.status = DownloadTokenActive
           /\ ret.afterOk => ret.code = 409

C38_Witness ==
    /\ ret.op = "handleDownloadFile"
    /\ ret.redeemed
    /\ ret.code = 404
    /\ ret.msg = "asset not found"
    /\ ret.pre.status = DownloadTokenActive
    /\ GetToken(tokenRepo, ret.token).status = DownloadTokenUsed
    /\ GetToken(tokenRepo, ret.token).usedAt = ret.at

\* C39: the stored record changes only through Put: a request that has
\* assigned fields of the order it obtained from Get and has not called Put
\* yet (Pay between its Get and its Put) leaves the order that Get returns as
\* it was, on the in-memory repository as on the Postgres one.
C39_StoreChangesOnlyThroughPut ==
    [][\A p \in 1..MaxProcs :
            (procs[p].pc = "idle" /\ procs'[p].pc = "payAssigned")
                => OrderGet(orderRepo', procs'[p].orderId)
                        = OrderGet(orderRepo, procs'[p].orderId)]_vars

\* C40: MemoryOrderRepo.List(page, pageSize) with page >= 1 and pageSize >= 1
\* returns at most pageSize orders and total = the number of stored orders,
\* returns no items when (page-1)*pageSize >= total, and over an unchanged
\* store the pages 1..ceil(total/pageSize) together hold every stored order
\* exactly once.
ListBounds ==
    /\ Len(ret.items) <= ret.pageSize
    /\ ret.total = Cardinality(DOMAIN orderRepo)
    /\ (ret.page - 1) * ret.pageSize >= ret.total => ret.items = <<>>
    /\ \A i \in DOMAIN ret.items : ret.items[i] \in {orderRepo[id] : id \in DOMAIN orderRepo}

C40_PagesPartitionTheStore ==
    ret.op = "List"
        => /\ ListBounds
           /\ LET n == (ret.total + ret.pageSize - 1) \div ret.pageSize
              IN  (1..n) \subseteq DOMAIN ret.seen
                    => \A id \in DOMAIN orderRepo :
                         Cardinality({<<pg, i>> \in (1..n) \X (1..ret.pageSize) :
                                        /\ i <= Len(ret.seen[pg])
                                        /\ ret.seen[pg][i] = orderRepo[id]}) = 1
====
